---- MODULE Spec2Model ----
(***************************************************************************)
(* workmux: the agent state store (src/state/store.rs), its reconciliation *)
(* against the live multiplexer, the orphan drain, and the restore         *)
(* orchestrator (src/command/restore.rs).                                  *)
(*                                                                         *)
(* Strings that the code takes apart or puts together (file names, pane   *)
(* keys) are sequences of tokens; a token is a run of characters holding   *)
(* neither '_' nor '.', or one of the tokens "_" and ".".                  *)
(* Option<T> is a sequence of length at most one: None is <<>>, Some(x) is *)
(* <<x>>.                                                                  *)
(***************************************************************************)
EXTENDS Integers, Sequences, FiniteSets, TLC

VARIABLES
    dir,        \* agents/ directory: file name -> inode
    data,       \* inode -> content of the file
    pc,         \* per process: where it stands inside upsert_agent
    req,        \* per process: the AgentState its running upsert_agent writes
    fd,         \* per process: the inode its open temp file descriptor refers to
    res,        \* per process: outcome of its last finished call
    nops,       \* per process: number of calls started
    written,    \* history: records some upsert wrote completely to a temp file
    renamed,    \* history: pane keys for which some upsert completed its rename
    listed,     \* result of the last list_all_agents call
    got,        \* result of the last get_agent call
    live,       \* the multiplexer's panes: pane id -> LivePaneInfo
    phase,      \* which call of a reconciliation or restore scenario ran last
    pre,        \* history: the records the store held when that call began
    valid_agents, \* load_reconciled_agents: the AgentPanes it returned
    emitted,    \* history: the pane keys of the records those AgentPanes came from
    cleared,    \* load_reconciled_agents: the pane ids it called clear_status for
    orphans,    \* drain_orphans: the map it returned, workdir -> AgentState
    run,        \* the restore command: its arguments, its place, what is left to do
    drains,     \* history: number of drain_orphans calls of the restore run
    opens,      \* history: the worktrees the restore run opened
    windows,    \* the multiplexer's windows, by worktree handle
    sessions,   \* the multiplexer's sessions
    kv,         \* history: the map sequential store calls should have built
    probe,      \* a call of PaneKey::to_filename or from_filename and its result
    cap,        \* run_capture_loop: its arguments, its place, its result
    senv,       \* ~/.claude/session-env: whether it exists, its directories by mtime
    session_id, \* sessions/<repo>/<branch>/session_id: the stored session id
    tree,       \* the sessions directory: its directories and its files
    shims,      \* <state_dir>/shims/bin and the create_shim_directory calls on it
    guest,      \* a command run that may be inside a sandbox guest, and what it did
    art,        \* one run of `workmux run`: its directory, the writer of the result, the poller
    pass,       \* one reconciliation pass taken step by step beside a writer
    captors     \* two session captors running side by side over one session-env

storeVars == <<dir, data, pc, req, fd, res, nops, written, renamed, listed, got>>
reconVars == <<live, phase, pre, valid_agents, emitted, cleared, orphans>>
restoreVars == <<run, drains, opens, windows, sessions>>
capVars == <<cap, senv, session_id>>
lateVars == <<art, pass, captors>>
moreVars == <<tree, shims, guest, lateVars>>
auxVars == <<kv, probe, capVars, moreVars>>
vars == <<storeVars, reconVars, restoreVars, auxVars>>

None == <<>>
Some(x) == <<x>>

(* Number of store calls one process makes in a run of the store specifications. *)
MaxOps == 2

--------------------------------------------------------------------------
(* PaneKey and its file name: src/state/types.rs *)

PaneKey(b, i, p) == [backend |-> b, instance |-> i, pane_id |-> p]

\* A to_filename with a single underscore as the delimiter.
to_filename_single_underscore(key) ==
    key.backend \o <<"_">> \o key.instance \o <<"_">> \o key.pane_id \o <<".", "json">>

\* PaneKey::to_filename: format!("{}__{}__{}.json", backend, instance, pane_id)
to_filename(key) ==
    key.backend \o <<"_", "_">> \o key.instance \o <<"_", "_">> \o key.pane_id
        \o <<".", "json">>

\* Index of the last "." token of a file name, 0 when there is none.
LastDot(name) ==
    LET dots == {i \in 1..Len(name) : name[i] = "."}
    IN  IF dots = {} THEN 0 ELSE CHOOSE i \in dots : \A j \in dots : j <= i

\* Path::extension: the tokens after the last ".", None for no "." (or a leading one).
extension(name) ==
    IF LastDot(name) <= 1 THEN None
    ELSE Some(SubSeq(name, LastDot(name) + 1, Len(name)))

\* Path::with_extension: the stem, then "." and the new extension.
with_extension(name, ext) ==
    (IF LastDot(name) <= 1 THEN name ELSE SubSeq(name, 1, LastDot(name) - 1))
        \o <<".">> \o ext

\* str::ends_with
ends_with(name, suffix) ==
    /\ Len(name) >= Len(suffix)
    /\ SubSeq(name, Len(name) - Len(suffix) + 1, Len(name)) = suffix

\* str::strip_suffix
strip_suffix(name, suffix) ==
    IF ends_with(name, suffix) THEN Some(SubSeq(name, 1, Len(name) - Len(suffix)))
    ELSE None

\* str::find: where the first occurrence of pat in s begins, 0 for none.
Find(s, pat) ==
    LET at == {i \in 1..(Len(s) - Len(pat) + 1) : SubSeq(s, i, i + Len(pat) - 1) = pat}
    IN  IF at = {} THEN 0 ELSE CHOOSE i \in at : \A j \in at : i <= j

RECURSIVE split(_, _)
\* str::split(pat): the fields between the occurrences of pat, found from the
\* left and not overlapping.
split(s, pat) ==
    IF Find(s, pat) = 0 THEN <<s>>
    ELSE <<SubSeq(s, 1, Find(s, pat) - 1)>>
             \o split(SubSeq(s, Find(s, pat) + Len(pat), Len(s)), pat)

\* A splitn that splits at every occurrence.
splitn_unbounded(n, s, pat) == split(s, pat)

RECURSIVE splitn(_, _, _)
\* str::splitn(n, pat): at most n fields, the last one is the rest of s.
splitn(n, s, pat) ==
    IF n <= 1 \/ Find(s, pat) = 0 THEN <<s>>
    ELSE <<SubSeq(s, 1, Find(s, pat) - 1)>>
             \o splitn(n - 1, SubSeq(s, Find(s, pat) + Len(pat), Len(s)), pat)

\* PaneKey::from_filename
from_filename(filename) ==
    LET stem == strip_suffix(filename, <<".", "json">>)
    IN  IF stem = None THEN None
        ELSE LET parts == splitn(3, stem[1], <<"_", "_">>)
             IN  IF Len(parts) = 3
                 THEN Some(PaneKey(parts[1], parts[2], parts[3]))
                 ELSE None

\* StateStore::agent_path, relative to agents/
agent_path(key) == to_filename(key)

\* A write_atomic that writes the target in place (no temp file).
tmp_path_in_place(path) == path

\* write_atomic's temp path: path.with_extension("json.tmp")
tmp_path(path) == with_extension(path, <<"json", ".", "tmp">>)

--------------------------------------------------------------------------
(* AgentState: the fields store.rs and restore.rs read and write *)

AgentState(key, workdir, status, status_ts, title, pid, command, updated_ts, restored) ==
    [pane_key |-> key, workdir |-> workdir, status |-> status,
     status_ts |-> status_ts, pane_title |-> title, pane_pid |-> pid,
     command |-> command, updated_ts |-> updated_ts, restored |-> restored]

TmuxDefault(p) == PaneKey(<<"tmux">>, <<"default">>, <<p>>)

\* The panes the store specifications write: two panes of the running tmux.
StoreKeys == {TmuxDefault("%1"), TmuxDefault("%2")}

\* The records the store specifications write: two per pane, as two hooks
\* (working, then waiting) would write them.
StoreStates ==
    {AgentState(k, <<"home", "user", "project">>, Some(s.status), Some(s.ts),
                Some("Implementing feature X"), 12345, "node", s.ts, FALSE) :
        k \in StoreKeys,
        s \in {[status |-> "working", ts |-> 1000], [status |-> "waiting", ts |-> 2000]}}

--------------------------------------------------------------------------
(* The file system under agents/ *)

\* An upsert that sets updated_ts itself.
Full_own_updated_ts(state) ==
    [kind |-> "full", state |-> [state EXCEPT !.updated_ts = 0]]

\* A file's content: the pretty-printed JSON of a record, or nothing yet
\* (the file was created or truncated and the write has not happened).
Full(state) == [kind |-> "full", state |-> state]
Empty == [kind |-> "empty"]

\* Content nothing in the program writes: text that is no JSON of a record
\* ("not valid json {{{"), and bytes that are no UTF-8 text.
Text == [kind |-> "text"]
Bytes == [kind |-> "bytes"]

Exists(name) == name \in DOMAIN dir

\* Inodes some directory entry or some open descriptor refers to.
UsedInodes(d, f) == {d[n] : n \in DOMAIN d} \cup {f[p][1] : p \in {q \in DOMAIN f : f[q] # None}}

\* The inode a newly created file gets. Inode numbers are only names: a new
\* file is named after the path it is created under, with the least count
\* that no inode in use has.
FreshInode(d, f, name) ==
    LET used == UsedInodes(d, f)
        n == CHOOSE i \in 1..(Cardinality(used) + 1) :
                 /\ <<name, i>> \notin used
                 /\ \A j \in 1..(i - 1) : <<name, j>> \in used
    IN  <<name, n>>

\* The contents of the inodes still in use (an unlinked, closed file is gone).
Collect(d, f, dat) == [i \in UsedInodes(d, f) |-> dat[i]]

\* The directory without one name.
Unlink(d, name) == [n \in DOMAIN d \ {name} |-> d[n]]

\* The directory with name bound to inode i.
Link(d, name, i) == [n \in DOMAIN d \cup {name} |-> IF n = name THEN i ELSE d[n]]

\* serde_json::from_str::<AgentState>: only a completely written record parses.
Parses(content) == content.kind = "full"

\* A read_to_string that takes any bytes.
ReadsToString_lossy(content) == TRUE

\* fs::read_to_string: an error (InvalidData) when the bytes are no UTF-8.
ReadsToString(content) == content.kind # "bytes"

\* read_agent_file: what the read returns, and whether it removes the file.
\*   "none"    the file does not exist           -> Ok(None)
\*   "some"    the content parses                 -> Ok(Some(state))
\*   "corrupt" the content does not parse: the file is removed -> Ok(None)
\*   "err"     the content cannot be read as a string -> Err, the file stays
read_agent_file(d, dat, name) ==
    IF name \notin DOMAIN d THEN [kind |-> "none"]
    ELSE IF ~ReadsToString(dat[d[name]]) THEN [kind |-> "err"]
    ELSE IF Parses(dat[d[name]]) THEN [kind |-> "some", state |-> dat[d[name]].state]
    ELSE [kind |-> "corrupt"]

\* A list_all_agents that reads every directory entry.
ListedNames_every_file(d) == DOMAIN d

\* The directory entries list_all_agents reads: extension "json", and the
\* name does not end in ".tmp".
ListedNames(d) ==
    {n \in DOMAIN d : /\ extension(n) = Some(<<"json">>)
                      /\ ~ends_with(n, <<".", "tmp">>)}

\* The content of the file at a path, None when there is none.
FileAt(d, dat, name) == IF name \in DOMAIN d THEN Some(dat[d[name]]) ELSE None

\* The contents of the files list_all_agents reads.
ListedContents(d, dat) == [n \in ListedNames(d) |-> dat[d[n]]]

\* list_all_agents: the records it returns (read_dir order is unspecified; the
\* callers modelled here do not depend on it, except drain_orphans, which
\* chooses the order itself).
list_all_agents(d, dat) ==
    {read_agent_file(d, dat, n).state :
        n \in {m \in ListedNames(d) : read_agent_file(d, dat, m).kind = "some"}}

\* list_all_agents: the directory it leaves (corrupted files are removed).
DirAfterList(d, dat) ==
    LET bad == {n \in ListedNames(d) : read_agent_file(d, dat, n).kind = "corrupt"}
    IN  [n \in DOMAIN d \ bad |-> d[n]]

\* list_all_agents: read_agent_file(&path)? returns the error of the first
\* file that cannot be read.
ListFails(d, dat) == \E n \in ListedNames(d) : read_agent_file(d, dat, n).kind = "err"

\* list_all_agents that fails: the directories it can leave. The corrupted
\* files read_dir yielded before the unreadable one are removed.
DirsAfterFailedList(d, dat) ==
    LET bad == {n \in ListedNames(d) : read_agent_file(d, dat, n).kind = "corrupt"}
    IN  {[n \in DOMAIN d \ b |-> d[n]] : b \in SUBSET bad}

\* delete_agent: remove_file, NotFound is success.
delete_agent(d, key) == Unlink(d, agent_path(key))

\* write_atomic with no other process in between: write the temp file
\* (created, or truncated when a stale one exists), then rename it over path.
\* The old target's inode dies in the same step, so its name may be taken.
WriteAtomicSeq(d, dat, f, path, content) ==
    LET tmp == tmp_path(path)
        i   == IF tmp \in DOMAIN d THEN d[tmp]
               ELSE FreshInode(Unlink(d, path), f, tmp)
        d2  == Link(Unlink(d, tmp), path, i)
        dat2 == [j \in DOMAIN dat \cup {i} |-> IF j = i THEN content ELSE dat[j]]
    IN  [dir |-> d2, data |-> Collect(d2, f, dat2)]

--------------------------------------------------------------------------
(* Store calls of a process p, step by step: write_atomic is three system   *)
(* calls (open with O_CREAT|O_TRUNC, write, rename), and another process or *)
(* a crash may come between any two.                                       *)

Idle(p) == pc[p] = "idle"

\* upsert_agent entered: the path and the JSON text are computed.
UpsertBegin(p, state) ==
    /\ Idle(p)
    /\ nops[p] < MaxOps
    /\ pc' = [pc EXCEPT ![p] = "open"]
    /\ req' = [req EXCEPT ![p] = Some(state)]
    /\ nops' = [nops EXCEPT ![p] = @ + 1]
    /\ res' = [res EXCEPT ![p] = "running"]
    /\ UNCHANGED <<dir, data, fd, written, renamed, listed, got>>
    /\ UNCHANGED <<reconVars, restoreVars, auxVars>>

\* The target path and the temp path of p's running upsert.
TargetOf(p) == agent_path(req[p][1].pane_key)
TmpOf(p) == tmp_path(TargetOf(p))

\* fs::write, first half: File::create(tmp) creates the file or truncates it.
OpenTmp(p) ==
    /\ pc[p] = "open"
    /\ LET i  == IF Exists(TmpOf(p)) THEN dir[TmpOf(p)]
                 ELSE FreshInode(dir, fd, TmpOf(p))
           d2 == Link(dir, TmpOf(p), i)
           f2 == [fd EXCEPT ![p] = Some(i)]
       IN  /\ dir' = d2
           /\ fd' = f2
           /\ data' = Collect(d2, f2, [j \in DOMAIN data \cup {i} |->
                                          IF j = i THEN Empty ELSE data[j]])
    /\ pc' = [pc EXCEPT ![p] = "write"]
    /\ UNCHANGED <<req, res, nops, written, renamed, listed, got>>
    /\ UNCHANGED <<reconVars, restoreVars, auxVars>>

\* fs::write, second half: write_all(content) into the open file, then close.
WriteTmp(p) ==
    /\ pc[p] = "write"
    /\ LET f2 == [fd EXCEPT ![p] = None]
       IN  /\ fd' = f2
           /\ data' = Collect(dir, f2, [data EXCEPT ![fd[p][1]] = Full(req[p][1])])
    /\ written' = written \cup {req[p][1]}
    /\ pc' = [pc EXCEPT ![p] = "rename"]
    /\ UNCHANGED <<dir, req, res, nops, renamed, listed, got>>
    /\ UNCHANGED <<reconVars, restoreVars, auxVars>>

\* fs::rename(tmp, path): fails with NotFound when tmp is gone.
RenameTmp(p) ==
    /\ pc[p] = "rename"
    /\ IF Exists(TmpOf(p))
       THEN LET d2 == Link(Unlink(dir, TmpOf(p)), TargetOf(p), dir[TmpOf(p)])
            IN  /\ dir' = d2
                /\ data' = Collect(d2, fd, data)
                /\ res' = [res EXCEPT ![p] = "ok"]
                /\ renamed' = renamed \cup {req[p][1].pane_key}
       ELSE /\ res' = [res EXCEPT ![p] = "err"]
            /\ UNCHANGED <<dir, data, renamed>>
    /\ pc' = [pc EXCEPT ![p] = "idle"]
    /\ UNCHANGED <<req, fd, nops, written, listed, got>>
    /\ UNCHANGED <<reconVars, restoreVars, auxVars>>

\* The process dies inside upsert_agent; the kernel closes its descriptor,
\* the files stay as they are.
Crash(p) ==
    /\ ~Idle(p)
    /\ pc' = [pc EXCEPT ![p] = "idle"]
    /\ fd' = [fd EXCEPT ![p] = None]
    /\ data' = Collect(dir, [fd EXCEPT ![p] = None], data)
    /\ res' = [res EXCEPT ![p] = "crashed"]
    /\ UNCHANGED <<dir, req, nops, written, renamed, listed, got>>
    /\ UNCHANGED <<reconVars, restoreVars, auxVars>>

\* delete_agent(key) by process p: one unlink.
DeleteAgent(p, key) ==
    /\ Idle(p)
    /\ nops[p] < MaxOps
    /\ nops' = [nops EXCEPT ![p] = @ + 1]
    /\ dir' = delete_agent(dir, key)
    /\ data' = Collect(dir', fd, data)
    /\ res' = [res EXCEPT ![p] = "deleted"]
    /\ UNCHANGED <<pc, req, fd, written, renamed, listed, got>>
    /\ UNCHANGED <<reconVars, restoreVars, auxVars>>

\* get_agent(key) by a reader: read_agent_file on the key's path.
GetAgent(key) ==
    LET r == read_agent_file(dir, data, agent_path(key))
    IN  /\ got' = Some([key |-> key, result |-> r, found |-> FileAt(dir, data, agent_path(key))])
        /\ dir' = IF r.kind = "corrupt" THEN Unlink(dir, agent_path(key)) ELSE dir
        /\ data' = Collect(dir', fd, data)
        /\ UNCHANGED <<pc, req, fd, res, nops, written, renamed, listed>>
        /\ UNCHANGED <<reconVars, restoreVars, auxVars>>

\* list_all_agents() by a reader.
ListAll ==
    /\ IF ListFails(dir, data)
       THEN /\ listed' = Some([kind |-> "err", found |-> ListedContents(dir, data)])
            /\ dir' \in DirsAfterFailedList(dir, data)
       ELSE /\ listed' = Some([kind |-> "ok", agents |-> list_all_agents(dir, data),
                               found |-> ListedContents(dir, data)])
            /\ dir' = DirAfterList(dir, data)
    /\ data' = Collect(dir', fd, data)
    /\ UNCHANGED <<pc, req, fd, res, nops, written, renamed, got>>
    /\ UNCHANGED <<reconVars, restoreVars, auxVars>>

Procs == {1, 2}

\* StateStore::new / with_path: agents/ exists and is empty.
Init ==
    /\ dir = <<>>
    /\ data = <<>>
    /\ pc = [p \in Procs |-> "idle"]
    /\ req = [p \in Procs |-> None]
    /\ fd = [p \in Procs |-> None]
    /\ res = [p \in Procs |-> "none"]
    /\ nops = [p \in Procs |-> 0]
    /\ written = {}
    /\ renamed = {}
    /\ listed = None
    /\ got = None
    /\ live = <<>>
    /\ phase = "setup"
    /\ pre = {}
    /\ valid_agents = {}
    /\ emitted = {}
    /\ cleared = {}
    /\ orphans = <<>>
    /\ run = [pc |-> "none"]
    /\ drains = 0
    /\ opens = {}
    /\ windows = {}
    /\ sessions = {}
    /\ kv = <<>>
    /\ probe = None
    /\ cap = [pc |-> "none"]
    /\ senv = [exists |-> FALSE, dirs |-> <<>>]
    /\ session_id = None
    /\ tree = [dirs |-> {}, files |-> <<>>]
    /\ shims = [pc |-> "none"]
    /\ guest = [pc |-> "none"]
    /\ art = [pc |-> "none"]
    /\ pass = [pc |-> "none"]
    /\ captors = [pc |-> "none"]

\* One process at a time calls the store and may die at any step; after a
\* crash the next call comes from a restarted process.
NextCrash ==
    \/ \E s \in StoreStates : UpsertBegin(1, s)
    \/ OpenTmp(1)
    \/ WriteTmp(1)
    \/ RenameTmp(1)
    \/ Crash(1)
    \/ \E k \in StoreKeys : DeleteAgent(1, k)
    \/ ListAll

SpecCrash == Init /\ [][NextCrash]_vars

\* Two processes call upsert_agent at the same time; readers run alongside.
NextConc ==
    \/ \E p \in Procs, s \in StoreStates : UpsertBegin(p, s)
    \/ \E p \in Procs : OpenTmp(p)
    \/ \E p \in Procs : WriteTmp(p)
    \/ \E p \in Procs : RenameTmp(p)
    \/ \E k \in StoreKeys : GetAgent(k)

SpecConc == Init /\ [][NextConc]_vars

--------------------------------------------------------------------------
(* Reconciliation against the live multiplexer, and the orphan drain *)

\* The running multiplexer: mux.name() and mux.instance_id().
MuxName == <<"tmux">>
MuxInstance == <<"default">>

\* Number of records the store holds at most in a reconciliation scenario.
MaxAgents == 2

PaneIds == {<<"%1">>, <<"%2">>}
Pids == {111, 222}
Commands == {"node", "zsh"}
\* A path is the sequence of its components.
WtA == <<"repo", "wt", "feat-a">>
WtB == <<"repo2", "wt", "feat-b">>
Workdirs == {WtA, WtB}

\* LivePaneInfo of the batched query get_all_live_pane_info.
LivePaneInfo(pid, command) ==
    [pid |-> pid, current_command |-> command,
     session |-> Some("main"), window |-> Some("wm-feat"), title |-> None]

LivePaneInfos == {LivePaneInfo(pid, c) : pid \in Pids, c \in Commands}

\* Records of the running multiplexer's panes, and records of other
\* multiplexers (another tmux server, another backend) that use the same
\* pane ids.
LocalKeys == {PaneKey(MuxName, MuxInstance, p) : p \in PaneIds}
ForeignKeys == {PaneKey(<<"tmux">>, <<"other">>, <<"%1">>),
                PaneKey(<<"wezterm">>, <<"default">>, <<"%2">>)}

HookStatus(status) == IF status = None THEN None ELSE Some(1000)

\* The records of a reconciliation scenario. Each was written when its pane's
\* shell had pid 111 and ran "node"; the live side varies the pid and the
\* command, so every arm of the pass is taken.
ReconStates ==
    {AgentState(k, w, st, HookStatus(st), None, 111, "node", 1000, r) :
        k \in LocalKeys, w \in Workdirs, st \in {None, Some("waiting")},
        r \in BOOLEAN}
    \cup
    {AgentState(k, WtA, st, HookStatus(st), None, 111,
                "node", 1000, FALSE) :
        k \in ForeignKeys, st \in {None, Some("working")}}

\* HashMap::unwrap_or_default on an Option<String>
unwrap_or_default(opt) == IF opt = None THEN "" ELSE opt[1]

\* AgentState::to_agent_pane(session, window, title). src/state/types.rs has
\* the two-argument form; store.rs passes the live title as a third argument,
\* kept here as a field of its own.
to_agent_pane(state, session, window_name, title) ==
    [session |-> session, window_name |-> window_name,
     pane_id |-> state.pane_key.pane_id, path |-> state.workdir,
     pane_title |-> state.pane_title, status |-> state.status,
     status_ts |-> state.status_ts, title |-> title]

\* A record whose backend is the running one and whose instance is not
\* would pass for a record of the running multiplexer.
Foreign_backend_only(state) == state.pane_key.backend # MuxName

\* store.rs:256: the record belongs to another backend or instance.
Foreign(state) ==
    \/ state.pane_key.backend # MuxName
    \/ state.pane_key.instance # MuxInstance

\* live_panes.get(&state.pane_key.pane_id)
LiveOf(lv, state) ==
    IF state.pane_key.pane_id \in DOMAIN lv THEN Some(lv[state.pane_key.pane_id]) ELSE None

\* A pass that never notices a recycled pane id.
PidMismatch_never(state, lp) == FALSE

\* store.rs:269: live.pid != state.pane_pid
PidMismatch(state, lp) == lp.pid # state.pane_pid

\* store.rs:275: live.current_command != state.command
CommandMismatch(state, lp) == lp.current_command # state.command

\* The exemption without the status test.
KeepOnCommandMismatch_restored_only(state) == state.restored

\* The exemption without the restored flag.
KeepOnCommandMismatch_status_only(state) == state.status = None

\* The exemption granted to every record.
KeepOnCommandMismatch_always(state) == TRUE

\* store.rs:283: state.status.is_none() || state.restored
KeepOnCommandMismatch(state) == state.status = None \/ state.restored

\* The arm of load_reconciled_agents' loop body a record takes.
Verdict(state, lv) ==
    IF Foreign(state) THEN "foreign"
    ELSE IF LiveOf(lv, state) = None THEN "gone"
    ELSE IF PidMismatch(state, LiveOf(lv, state)[1]) THEN "pid"
    ELSE IF CommandMismatch(state, LiveOf(lv, state)[1])
         THEN (IF KeepOnCommandMismatch(state) THEN "keep" ELSE "exited")
    ELSE "valid"

\* clear_status after every delete, the gone pane's too.
ClearsStatus_on_every_delete(verdict) == verdict \in {"gone", "pid", "exited"}

\* store.rs:273 and 293: mux.clear_status(pane_id) follows the delete in the
\* pid-mismatch arm and in the non-exempt command-mismatch arm only.
ClearsStatus(verdict) == verdict \in {"pid", "exited"}

\* The directory without the state files of a set of keys.
DeleteAll(d, keys) == [n \in DOMAIN d \ {agent_path(k) : k \in keys} |-> d[n]]

\* store.rs:140: pane gone, or pane id recycled by another process.
is_orphan(state, lv) ==
    \/ LiveOf(lv, state) = None
    \/ LiveOf(lv, state)[1].pid # state.pane_pid

\* A drain that returns the orphans and leaves their files in place.
DrainDeletes_nothing(state, lv) == FALSE

\* store.rs:144-145: the records whose file drain_orphans deletes.
DrainDeletes(state, lv) == is_orphan(state, lv)

\* The directory drain_orphans leaves.
DrainDir(d, dat, lv) ==
    DeleteAll(DirAfterList(d, dat),
              {s.pane_key : s \in {t \in list_all_agents(d, dat) : DrainDeletes(t, lv)}})

\* The maps drain_orphans can return: orphans.insert(workdir, state) in the
\* order of list_all_agents, which is unspecified, so of several orphans with
\* one workdir any one can be the entry that stays.
DrainResults(all, lv) ==
    LET orph == {s \in all : is_orphan(s, lv)}
        dirs == {s.workdir : s \in orph}
    IN  {m \in [dirs -> orph] : \A w \in dirs : m[w].workdir = w}

InSetup == phase = "setup"

\* A hook or a launch writes a record (upsert_agent, no other process).
SetupUpsert(state) ==
    /\ InSetup
    /\ \/ Exists(agent_path(state.pane_key))
       \/ Cardinality(list_all_agents(dir, data)) < MaxAgents
    /\ LET w == WriteAtomicSeq(dir, data, fd, agent_path(state.pane_key), Full(state))
       IN  dir' = w.dir /\ data' = w.data
    /\ UNCHANGED <<pc, req, fd, res, nops, written, renamed, listed, got>>
    /\ UNCHANGED <<reconVars, restoreVars, auxVars>>

\* The multiplexer: a pane appears, or its shell or foreground command changes.
PaneChange(pane, info) ==
    /\ InSetup
    /\ live' = [p \in DOMAIN live \cup {pane} |-> IF p = pane THEN info ELSE live[p]]
    /\ UNCHANGED storeVars
    /\ UNCHANGED <<phase, pre, valid_agents, emitted, cleared, orphans>>
    /\ UNCHANGED <<restoreVars, auxVars>>

\* The multiplexer: a pane is closed.
PaneClose(pane) ==
    /\ InSetup
    /\ pane \in DOMAIN live
    /\ live' = [p \in DOMAIN live \ {pane} |-> live[p]]
    /\ UNCHANGED storeVars
    /\ UNCHANGED <<phase, pre, valid_agents, emitted, cleared, orphans>>
    /\ UNCHANGED <<restoreVars, auxVars>>

\* load_reconciled_agents(mux): one pass over list_all_agents().
LoadReconciled ==
    LET all  == list_all_agents(dir, data)
        kept == {s \in all : Verdict(s, live) \in {"keep", "valid"}}
        dead == {s \in all : Verdict(s, live) \in {"gone", "pid", "exited"}}
    IN  /\ phase = "setup" \/ (phase = "restoring" /\ run.pc = "done")
        /\ pre' = all
        /\ dir' = DeleteAll(DirAfterList(dir, data), {s.pane_key : s \in dead})
        /\ data' = Collect(dir', fd, data)
        /\ cleared' = {s.pane_key.pane_id : s \in {t \in all : ClearsStatus(Verdict(t, live))}}
        /\ valid_agents' =
              {to_agent_pane(s, unwrap_or_default(LiveOf(live, s)[1].session),
                             unwrap_or_default(LiveOf(live, s)[1].window),
                             LiveOf(live, s)[1].title) : s \in kept}
        /\ emitted' = {s.pane_key : s \in kept}
        /\ phase' = IF phase = "setup" THEN "reconciled" ELSE "restored_reconciled"
        /\ UNCHANGED <<pc, req, fd, res, nops, written, renamed, listed, got>>
        /\ UNCHANGED <<live, orphans>>
        /\ UNCHANGED <<restoreVars, auxVars>>

\* drain_orphans(live_pane_ids), and a second call right after the first
\* (pre keeps the records the store held before the first).
DrainOrphans ==
    LET all == list_all_agents(dir, data)
    IN  /\ phase \in {"setup", "drained"}
        /\ pre' = IF phase = "setup" THEN all ELSE pre
        /\ dir' = DrainDir(dir, data, live)
        /\ data' = Collect(dir', fd, data)
        /\ orphans' \in DrainResults(all, live)
        /\ phase' = IF phase = "setup" THEN "drained" ELSE "drained_twice"
        /\ UNCHANGED <<pc, req, fd, res, nops, written, renamed, listed, got>>
        /\ UNCHANGED <<live, valid_agents, emitted, cleared>>
        /\ UNCHANGED <<restoreVars, auxVars>>

NextReconcile ==
    \/ \E s \in ReconStates : SetupUpsert(s)
    \/ \E p \in PaneIds, i \in LivePaneInfos : PaneChange(p, i)
    \/ \E p \in PaneIds : PaneClose(p)
    \/ LoadReconciled
    \/ DrainOrphans

SpecReconcile == Init /\ [][NextReconcile]_vars

--------------------------------------------------------------------------
(* Calls of PaneKey::to_filename and PaneKey::from_filename *)

(* Longest backend, instance or pane id of a pane key given to to_filename. *)
MaxField == 2

(* Longest stem of a file name given to from_filename. *)
MaxStem == 6

\* The strings of at most n symbols of an alphabet.
Strings(alphabet, n) == UNION {[1..m -> alphabet] : m \in 0..n}

\* The pane keys to_filename is called with: every field is any string of
\* letters and underscores.
ProbeKeys ==
    {PaneKey(b, i, p) : b \in Strings({"a", "_"}, MaxField),
                        i \in Strings({"a", "_"}, MaxField),
                        p \in Strings({"a", "_"}, MaxField)}

\* The file names from_filename is called with: a stem of letters and
\* underscores with or without .json, or with something else, after it.
ProbeNames ==
    {stem \o suffix : stem \in Strings({"a", "_"}, MaxStem),
                      suffix \in {<<>>, <<".", "json">>, <<".", "tmp">>, <<"json">>}}

\* One call per run: the functions read and write no state.

\* key.to_filename(), and PaneKey::from_filename of the result.
ToFilename(key) ==
    /\ InSetup
    /\ probe = None
    /\ probe' = Some([op |-> "to_filename", key |-> key, name |-> to_filename(key),
                      back |-> from_filename(to_filename(key))])
    /\ UNCHANGED <<storeVars, reconVars, restoreVars, kv, capVars, moreVars>>

\* PaneKey::from_filename(name)
FromFilename(name) ==
    /\ InSetup
    /\ probe = None
    /\ probe' = Some([op |-> "from_filename", name |-> name,
                      parsed |-> from_filename(name)])
    /\ UNCHANGED <<storeVars, reconVars, restoreVars, kv, capVars, moreVars>>

NextFilename ==
    \/ \E k \in ProbeKeys : ToFilename(k)
    \/ \E n \in ProbeNames : FromFilename(n)

SpecFilename == Init /\ [][NextFilename]_vars

--------------------------------------------------------------------------
(* Sequential store calls, and the map they should build *)

\* Pane keys with underscores: an instance that ends with one, a pane id that
\* starts with one.
MapKeys ==
    {TmuxDefault("%1"), TmuxDefault("%2"),
     PaneKey(<<"tmux">>, <<"dev", "_">>, <<"1">>),
     PaneKey(<<"tmux">>, <<"dev">>, <<"_", "1">>)}

\* The records written: two for pane %1, one for every other pane, each in
\* its own workdir.
MapStates ==
    {AgentState(TmuxDefault("%1"), <<"home", "user", "project">>, Some(st), Some(1000),
                None, 12345, "node", 1000, FALSE) : st \in {"working", "waiting"}}
    \cup
    {AgentState(k, <<"home", "user">> \o k.instance \o k.pane_id, Some("working"),
                Some(1000), None, 12345, "node", 1000, FALSE) :
        k \in MapKeys \ {TmuxDefault("%1")}}

\* upsert_agent(state), no other process in between.
SeqUpsert(state) ==
    /\ InSetup
    /\ LET w == WriteAtomicSeq(dir, data, fd, agent_path(state.pane_key), Full(state))
       IN  dir' = w.dir /\ data' = w.data
    /\ kv' = [k \in DOMAIN kv \cup {state.pane_key} |->
                 IF k = state.pane_key THEN state ELSE kv[k]]
    /\ UNCHANGED <<pc, req, fd, res, nops, written, renamed, listed, got>>
    /\ UNCHANGED <<reconVars, restoreVars, probe, capVars, moreVars>>

\* delete_agent(key), no other process in between; Ok for an absent key too.
SeqDelete(key) ==
    /\ InSetup
    /\ dir' = delete_agent(dir, key)
    /\ data' = Collect(dir', fd, data)
    /\ kv' = [k \in DOMAIN kv \ {key} |-> kv[k]]
    /\ UNCHANGED <<pc, req, fd, res, nops, written, renamed, listed, got>>
    /\ UNCHANGED <<reconVars, restoreVars, probe, capVars, moreVars>>

NextMap ==
    \/ \E s \in MapStates : SeqUpsert(s)
    \/ \E k \in MapKeys : SeqDelete(k)
    \/ \E k \in MapKeys : GetAgent(k)
    \/ ListAll

SpecMap == Init /\ [][NextMap]_vars

\* Records with every order of the two timestamps: upsert_agent takes any
\* AgentState, and nothing in the store reads status_ts or updated_ts.
TimestampStates ==
    {AgentState(k, <<"home", "user", "project">>,
                IF ts = None THEN None ELSE Some("working"), ts,
                None, 12345, "node", upd, FALSE) :
        k \in StoreKeys, ts \in {None, Some(1000), Some(2000)}, upd \in {1000, 2000}}

NextTimestamps ==
    \/ \E s \in TimestampStates : SeqUpsert(s)
    \/ \E k \in StoreKeys : SeqDelete(k)
    \/ ListAll

SpecTimestamps == Init /\ [][NextTimestamps]_vars

--------------------------------------------------------------------------
(* State files nothing in the program wrote *)

\* What a damaged state file can hold.
DamagedContents == {Text, Bytes, Empty}

\* Something other than the store writes a state file in place: a disk fault,
\* an editor, another tool (test_corrupted_file_deleted: fs::write(&path, ..)).
CorruptFile(key, content) ==
    /\ InSetup
    /\ LET path == agent_path(key)
           i    == IF path \in DOMAIN dir THEN dir[path] ELSE FreshInode(dir, fd, path)
       IN  /\ dir' = Link(dir, path, i)
           /\ data' = Collect(dir', fd,
                          [j \in DOMAIN data \cup {i} |-> IF j = i THEN content ELSE data[j]])
    /\ UNCHANGED <<pc, req, fd, res, nops, written, renamed, listed, got>>
    /\ UNCHANGED <<reconVars, restoreVars, auxVars>>

NextCorrupt ==
    \/ \E s \in StoreStates : SetupUpsert(s)
    \/ \E k \in StoreKeys, c \in DamagedContents : CorruptFile(k, c)
    \/ \E k \in StoreKeys : GetAgent(k)
    \/ ListAll

SpecCorrupt == Init /\ [][NextCorrupt]_vars

--------------------------------------------------------------------------
(* The restore command: src/command/restore.rs *)

\* The repositories: r1 is the one `restore` is run in, r1 and r2 are the ones
\* `restore --all` can find registered. r1's worktree has the configured
\* subdirectory, r2's has not.
RepoWorktree(r) == IF r = "r1" THEN WtA ELSE WtB
SubdirExists(subdir) == subdir = WtA \o <<"app">>

\* restore.rs:148-157: the worktree, or its config_rel_dir subdirectory when
\* one is configured and exists.
effective_workdir(wt, rel) ==
    IF rel # <<>>
    THEN (IF SubdirExists(wt \o rel) THEN wt \o rel ELSE wt)
    ELSE wt

\* restore.rs:111-114: the worktree's handle, its directory name.
HandleOf(wt) == wt[Len(wt)]

\* The records of a restore scenario: agents of the last session, in the
\* worktrees or in r1's subdirectory, with and without a status.
RestoreWorkdirs == {WtA, WtA \o <<"app">>, WtB}

RestoreStates ==
    {AgentState(k, w, st, HookStatus(st),
                IF st = None THEN None ELSE Some("Fix login"), 111, "node", 1000, FALSE) :
        k \in LocalKeys, w \in RestoreWorkdirs, st \in {None, Some("waiting")}}
    \cup
    {AgentState(PaneKey(<<"tmux">>, <<"other">>, <<"%1">>), WtB, Some("working"),
                Some(1000), None, 111, "node", 1000, FALSE)}

\* run.drained keeps the orphans the run's drain_orphans took, run.found the
\* repositories the run found, and run.before what a --dry-run found when it
\* started, for the properties below.

\* The agent state files: name |-> content.
StateFiles(d, dat) == [n \in DOMAIN d |-> dat[d[n]]]

\* The runs of the restore command: its flags, what list_all_repos and
\* git::list_worktrees find, the configured subdirectory, and the windows
\* that are open already.
RestoreConfigs ==
    {[all |-> a, dry_run |-> d, repos |-> rs, git |-> g, rel |-> rel, windows |-> w] :
        a \in BOOLEAN, d \in BOOLEAN,
        rs \in {<<>>, <<"r1">>, <<"r1", "r2">>},
        g \in {[r \in {"r1", "r2"} |-> IF r = "r1" THEN <<>> ELSE <<WtB>>],
               [r \in {"r1", "r2"} |-> <<RepoWorktree(r)>>]},
        rel \in {<<>>, <<"app">>},
        w \in {{}, {HandleOf(WtA)}}}

\* The ids the multiplexer gives to new panes, in its order.
PaneOrder == <<<<"%1">>, <<"%2">>, <<"%3">>, <<"%4">>>>

NewPaneId(lv) ==
    PaneOrder[CHOOSE i \in 1..Len(PaneOrder) :
                  /\ PaneOrder[i] \notin DOMAIN lv
                  /\ \A j \in 1..(i - 1) : PaneOrder[j] \in DOMAIN lv]

\* workflow::open with options.prior_agent_state: the AgentState written for
\* the new agent pane. The orphan's status, status_ts and pane_title are
\* stamped onto it with restored = true.
workflow_open_state(prior, workdir, pane, pid, command) ==
    AgentState(PaneKey(MuxName, MuxInstance, pane), workdir,
               IF prior = None THEN None ELSE prior[1].status,
               IF prior = None THEN None ELSE prior[1].status_ts,
               IF prior = None THEN None ELSE prior[1].pane_title,
               pid, command, 2000, prior # None)

\* A restore_repo that drains on its own whatever it is handed.
DrainsLocally_always(all) == TRUE

\* restore.rs:92-103: restore_repo drains unless it is given external_orphans,
\* which run_all gives and run_single_repo does not.
DrainsLocally(all) == ~all

Restoring(at) == phase = "restoring" /\ run.pc = at

\* restore::run(dry_run, all), up to the first call of restore_repo or of
\* drain_orphans; run_all returns at once when no repository is registered.
RestoreStart(c) ==
    /\ InSetup
    /\ c.all \/ c.repos = <<"r1">>
    /\ phase' = "restoring"
    /\ run' = [pc |-> IF c.all THEN (IF c.repos = <<>> THEN "done" ELSE "predrain")
                      ELSE "repo",
               all |-> c.all, dry_run |-> c.dry_run, repos |-> c.repos,
               wts |-> <<>>, git |-> c.git, rel |-> c.rel, drained |-> {},
               found |-> c.repos,
               before |-> IF c.dry_run
                          THEN Some([files |-> StateFiles(dir, data),
                                     sessions |-> sessions, windows |-> c.windows])
                          ELSE None]
    /\ windows' = c.windows
    /\ drains' = 0
    /\ opens' = {}
    /\ UNCHANGED <<storeVars, auxVars>>
    /\ UNCHANGED <<live, pre, valid_agents, emitted, cleared, orphans, sessions>>

\* restore.rs:212-219: run_all drains every orphan before the first repository.
RunAllDrain ==
    /\ Restoring("predrain")
    /\ pre' = list_all_agents(dir, data)
    /\ dir' = DrainDir(dir, data, live)
    /\ data' = Collect(dir', fd, data)
    /\ orphans' \in DrainResults(list_all_agents(dir, data), live)
    /\ drains' = drains + 1
    /\ run' = [run EXCEPT !.pc = "repo",
                          !.drained = {s \in list_all_agents(dir, data) : is_orphan(s, live)}]
    /\ UNCHANGED <<pc, req, fd, res, nops, written, renamed, listed, got, auxVars>>
    /\ UNCHANGED <<live, phase, valid_agents, emitted, cleared, opens, windows, sessions>>

\* What follows the current repository.
NextRepo(r) ==
    [r EXCEPT !.repos = Tail(r.repos), !.wts = <<>>,
              !.pc = IF Tail(r.repos) = <<>> THEN "done" ELSE "repo"]

\* restore.rs:221-251: run_all cannot enter the repository or load its
\* configuration, and goes on with the next one.
RepoFails ==
    /\ Restoring("repo")
    /\ run.all
    /\ run' = NextRepo(run)
    /\ UNCHANGED <<storeVars, auxVars>>
    /\ UNCHANGED <<reconVars, drains, opens, windows, sessions>>

\* restore.rs:68-103: restore_repo up to its loop. No secondary worktree:
\* return. Otherwise ensure the target session (run_all), and drain the
\* orphans unless the caller handed them in.
RestoreRepoBegin ==
    /\ Restoring("repo")
    /\ LET r == Head(run.repos)
           secondary == run.git[r]
       IN  IF secondary = <<>>
           THEN /\ run' = NextRepo(run)
                /\ UNCHANGED <<dir, data, pre, orphans, drains, sessions>>
           ELSE /\ sessions' = IF run.all THEN sessions \cup {r} ELSE sessions
                /\ IF DrainsLocally(run.all)
                   THEN /\ pre' = list_all_agents(dir, data)
                        /\ dir' = DrainDir(dir, data, live)
                        /\ data' = Collect(dir', fd, data)
                        /\ orphans' \in DrainResults(list_all_agents(dir, data), live)
                        /\ drains' = drains + 1
                        /\ run' = [run EXCEPT
                                      !.wts = secondary, !.pc = "wt",
                                      !.drained = {s \in list_all_agents(dir, data) :
                                                      is_orphan(s, live)}]
                   ELSE /\ UNCHANGED <<dir, data, pre, orphans, drains>>
                        /\ run' = [run EXCEPT !.wts = secondary, !.pc = "wt"]
    /\ UNCHANGED <<pc, req, fd, res, nops, written, renamed, listed, got, auxVars>>
    /\ UNCHANGED <<live, phase, valid_agents, emitted, cleared, opens, windows>>

\* The loop of restore_repo is over: back to the caller.
RestoreRepoEnd ==
    /\ Restoring("wt")
    /\ run.wts = <<>>
    /\ run' = NextRepo(run)
    /\ UNCHANGED <<storeVars, auxVars>>
    /\ UNCHANGED <<reconVars, drains, opens, windows, sessions>>

\* restore.rs:117-124: the worktree's window exists already.
RestoreSkip ==
    /\ Restoring("wt")
    /\ run.wts # <<>>
    /\ HandleOf(Head(run.wts)) \in windows
    /\ run' = [run EXCEPT !.wts = Tail(@)]
    /\ UNCHANGED <<storeVars, auxVars>>
    /\ UNCHANGED <<reconVars, drains, opens, windows, sessions>>

\* restore.rs:133-140: --dry-run prints what it would do.
RestoreDryRun ==
    /\ Restoring("wt")
    /\ run.wts # <<>>
    /\ HandleOf(Head(run.wts)) \notin windows
    /\ run.dry_run
    /\ run' = [run EXCEPT !.wts = Tail(@)]
    /\ UNCHANGED <<storeVars, auxVars>>
    /\ UNCHANGED <<reconVars, drains, opens, windows, sessions>>

\* restore.rs:142-181: pull the orphan of the effective workdir out of the
\* map and open the worktree with it: a window, a pane with a new shell (pid)
\* and the record of the new agent pane. `seen` is the foreground command a
\* later snapshot shows for the pane.
RestoreOpen(pid, command, seen) ==
    /\ Restoring("wt")
    /\ run.wts # <<>>
    /\ HandleOf(Head(run.wts)) \notin windows
    /\ ~run.dry_run
    /\ LET wt    == Head(run.wts)
           wd    == effective_workdir(wt, run.rel)
           prior == IF wd \in DOMAIN orphans THEN Some(orphans[wd]) ELSE None
           pane  == NewPaneId(live)
           state == workflow_open_state(prior, wd, pane, pid, command)
           w     == WriteAtomicSeq(dir, data, fd, agent_path(state.pane_key), Full(state))
       IN  /\ orphans' = [x \in DOMAIN orphans \ {wd} |-> orphans[x]]
           /\ windows' = windows \cup {HandleOf(wt)}
           /\ live' = [x \in DOMAIN live \cup {pane} |->
                          IF x = pane THEN LivePaneInfo(pid, seen) ELSE live[x]]
           /\ dir' = w.dir
           /\ data' = w.data
           /\ opens' = opens \cup {[workdir |-> wd, prior |-> prior, state |-> state,
                                    drains |-> drains]}
    /\ run' = [run EXCEPT !.wts = Tail(@)]
    /\ UNCHANGED <<pc, req, fd, res, nops, written, renamed, listed, got, auxVars>>
    /\ UNCHANGED <<phase, pre, valid_agents, emitted, cleared, drains, sessions>>

\* restore.rs:182-184: workflow::open fails; the orphan pulled out of the map
\* is dropped.
RestoreOpenFails ==
    /\ Restoring("wt")
    /\ run.wts # <<>>
    /\ HandleOf(Head(run.wts)) \notin windows
    /\ ~run.dry_run
    /\ LET wd == effective_workdir(Head(run.wts), run.rel)
       IN  orphans' = [x \in DOMAIN orphans \ {wd} |-> orphans[x]]
    /\ run' = [run EXCEPT !.wts = Tail(@)]
    /\ UNCHANGED <<storeVars, auxVars>>
    /\ UNCHANGED <<live, phase, pre, valid_agents, emitted, cleared>>
    /\ UNCHANGED <<drains, opens, windows, sessions>>

NextRestore ==
    \/ \E s \in RestoreStates : SetupUpsert(s)
    \/ \E p \in PaneIds, pid \in Pids : PaneChange(p, LivePaneInfo(pid, "node"))
    \/ \E c \in RestoreConfigs : RestoreStart(c)
    \/ RunAllDrain
    \/ RepoFails
    \/ RestoreRepoBegin
    \/ RestoreRepoEnd
    \/ RestoreSkip
    \/ RestoreDryRun
    \/ \E pid \in Pids, seen \in Commands : RestoreOpen(pid, "zsh", seen)
    \/ RestoreOpenFails
    \/ LoadReconciled

SpecRestore == Init /\ [][NextRestore]_vars

--------------------------------------------------------------------------
(* The UUID format of session ids: src/claude/session.rs *)

\* char::is_ascii_hexdigit, on lower case digits only.
is_ascii_hexdigit_lower(c) ==
    c \in {"0", "1", "2", "3", "4", "5", "6", "7", "8", "9", "a", "b", "c", "d", "e", "f"}

\* char::is_ascii_hexdigit
is_ascii_hexdigit(c) ==
    c \in {"0", "1", "2", "3", "4", "5", "6", "7", "8", "9",
           "a", "b", "c", "d", "e", "f", "A", "B", "C", "D", "E", "F"}

\* let expected_lengths = [8, 4, 4, 4, 12];
expected_lengths == <<8, 4, 4, 4, 12>>

\* is_valid_uuid(s): split at every '-', five parts, each of its expected
\* length and of hexadecimal digits only.
is_valid_uuid(s) ==
    LET parts == split(s, <<"-">>)
    IN  /\ Len(parts) = 5
        /\ \A i \in 1..5 :
              /\ Len(parts[i]) = expected_lengths[i]
              /\ \A j \in 1..Len(parts[i]) : is_ascii_hexdigit(parts[i][j])

\* n times the character c.
Rep(c, n) == [i \in 1..n |-> c]

RECURSIVE Join(_, _)
\* The strings of a sequence, with sep between them.
Join(strs, sep) ==
    IF strs = <<>> THEN <<>>
    ELSE IF Len(strs) = 1 THEN strs[1]
    ELSE strs[1] \o sep \o Join(Tail(strs), sep)

\* "cccccccc-cccc-cccc-cccc-cccccccccccc"
UuidOf(c) == Join([i \in 1..5 |-> Rep(c, expected_lengths[i])], <<"-">>)

\* "550e8400-e29b-41d4-a716-446655440000", with one digit in upper case.
Uuid550 ==
    Join(<<(<<"5", "5", "0", "e", "8", "4", "0", "0">>), (<<"E", "2", "9", "b">>),
           (<<"4", "1", "d", "4">>), (<<"a", "7", "1", "6">>),
           (<<"4", "4", "6", "6", "5", "5", "4", "4", "0", "0", "0", "0">>)>>, <<"-">>)

(* Most parts of a probed string that is built from parts. *)
MaxParts == 6

\* Characters that an edit puts into a UUID: digits of both cases, the
\* separator, a letter and a space that are no digits, a character beyond ASCII.
EditChars == {"-", "a", "F", "0", "g", "G", " ", "e_acute"}

\* The strings one edit away from s: a character replaced, removed, inserted.
Edits(s) ==
    {[s EXCEPT ![i] = c] : i \in 1..Len(s), c \in EditChars}
    \cup {SubSeq(s, 1, i - 1) \o SubSeq(s, i + 1, Len(s)) : i \in 1..Len(s)}
    \cup {SubSeq(s, 1, i) \o <<c>> \o SubSeq(s, i + 1, Len(s)) :
             i \in 0..Len(s), c \in EditChars}

\* The parts of the strings built from parts: hexadecimal of the three
\* expected lengths, of another length, and empty.
PartShapes == {Rep("a", 8), Rep("B", 4), Rep("7", 12), Rep("c", 3), <<>>}

\* The strings is_valid_uuid is called with: UUIDs, what is one edit away
\* from one, and every string of at most MaxParts parts.
ProbeUuids ==
    {UuidOf("a"), UuidOf("0"), UuidOf("F"), Uuid550}
    \cup Edits(Uuid550) \cup Edits(UuidOf("F"))
    \cup {Join(ps, <<"-">>) : ps \in UNION {[1..n -> PartShapes] : n \in 0..MaxParts}}

\* is_valid_uuid(s)
IsValidUuid(s) ==
    /\ InSetup
    /\ probe = None
    /\ probe' = Some([op |-> "is_valid_uuid", s |-> s, valid |-> is_valid_uuid(s)])
    /\ UNCHANGED <<storeVars, reconVars, restoreVars, kv, capVars, moreVars>>

\* One call per run: the function reads and writes no state.
NextUuid == probe = None /\ \E s \in ProbeUuids : IsValidUuid(s)

SpecUuid == Init /\ [][NextUuid]_vars

--------------------------------------------------------------------------
(* Session capture: src/claude/session.rs *)

(* Longest timeout of a capture, in poll intervals of two seconds. *)
MaxTimeout == 2

\* The directories Claude and others make under session-env: two whose name
\* is a session UUID, one whose name is not.
SessionDirs ==
    {[name |-> n, uuid |-> is_valid_uuid(n)] : n \in {Uuid550, UuidOf("a"), <<"t", "m", "p">>}}

\* The directories of session-env, as a set.
DirSet(e) == {e.dirs[i] : i \in 1..Len(e.dirs)}

\* A sequence without its entries equal to d.
Without(seq, d) == SelectSeq(seq, LAMBDA x : x # d)

\* count_session_dirs().unwrap_or(0): 0 when session-env does not exist.
count_session_dirs(e) == IF e.exists THEN Len(e.dirs) ELSE 0

\* find_latest_session_id, after its exists() test: the directory with the
\* greatest modification time, None when there is no directory.
latest_dir(e) == IF e.dirs = <<>> THEN None ELSE Some(e.dirs[Len(e.dirs)])

CaptureRunning == cap.pc \notin {"none", "done"}

\* A directory with a UUID name is the newest of session-env, and there are
\* more directories than at the start or this one was made during the run
\* (fresh): what a poll at this moment could take for the new session.
ValidNewOffered(e, initial_count, fresh) ==
    /\ e.exists
    /\ latest_dir(e) # None
    /\ latest_dir(e)[1].uuid
    /\ (count_session_dirs(e) > initial_count \/ latest_dir(e)[1] \in fresh)

\* cap.fresh keeps the directories made during the run and cap.offered
\* whether ValidNewOffered was so at some moment of it, for the properties
\* below.
Offered(e, fresh) == cap.offered \/ ValidNewOffered(e, cap.initial_count, fresh)

\* Something makes a directory under session-env (and session-env with it).
EnvCreate(d) ==
    /\ InSetup
    /\ d \notin DirSet(senv)
    /\ senv' = [exists |-> TRUE, dirs |-> Append(senv.dirs, d)]
    /\ cap' = IF CaptureRunning
              THEN [cap EXCEPT !.fresh = @ \cup {d},
                               !.offered = Offered(senv', cap.fresh \cup {d})]
              ELSE cap
    /\ UNCHANGED <<storeVars, reconVars, restoreVars, kv, probe, moreVars, session_id>>

\* Something writes into a directory of session-env: it becomes the newest.
EnvTouch(d) ==
    /\ InSetup
    /\ senv.exists
    /\ d \in DirSet(senv)
    /\ latest_dir(senv) # Some(d)
    /\ senv' = [senv EXCEPT !.dirs = Append(Without(senv.dirs, d), d)]
    /\ cap' = IF CaptureRunning
              THEN [cap EXCEPT !.offered = Offered(senv', cap.fresh)]
              ELSE cap
    /\ UNCHANGED <<storeVars, reconVars, restoreVars, kv, probe, moreVars, session_id>>

\* Something removes session-env with all it holds.
EnvRemove ==
    /\ InSetup
    /\ senv.exists
    /\ senv' = [exists |-> FALSE, dirs |-> <<>>]
    /\ UNCHANGED <<storeVars, reconVars, restoreVars, kv, probe, moreVars, cap, session_id>>

\* run_capture_loop(repo, branch, initial_count, timeout_secs) begins:
\* get_claude_session_env_dir() fails when no home directory can be found.
CaptureStart(initial_count, timeout, home) ==
    /\ InSetup
    /\ cap.pc = "none"
    /\ cap' = IF home
              THEN [pc |-> "delay", initial_count |-> initial_count, timeout |-> timeout,
                    home |-> home, elapsed |-> 0, result |-> "running",
                    fresh |-> {}, raced |-> FALSE,
                    offered |-> ValidNewOffered(senv, initial_count, {})]
              ELSE [pc |-> "done", initial_count |-> initial_count, timeout |-> timeout,
                    home |-> home, elapsed |-> 0, result |-> "err",
                    fresh |-> {}, raced |-> FALSE, offered |-> FALSE]
    /\ UNCHANGED <<storeVars, reconVars, restoreVars, kv, probe, moreVars, senv, session_id>>

\* thread::sleep(5 s), then start = Instant::now().
CaptureDelay ==
    /\ cap.pc = "delay"
    /\ cap' = [cap EXCEPT !.pc = "while"]
    /\ UNCHANGED <<storeVars, reconVars, restoreVars, kv, probe, moreVars, senv, session_id>>

\* while start.elapsed() < timeout; after the loop: warn, Ok(()).
CaptureWhile ==
    /\ cap.pc = "while"
    /\ cap' = IF cap.elapsed < cap.timeout
              THEN [cap EXCEPT !.pc = "count"]
              ELSE [cap EXCEPT !.pc = "done", !.result = "ok"]
    /\ UNCHANGED <<storeVars, reconVars, restoreVars, kv, probe, moreVars, senv, session_id>>

\* count_session_dirs().unwrap_or(0) and the test current_count > initial_count.
CaptureCount ==
    /\ cap.pc = "count"
    /\ cap' = IF count_session_dirs(senv) > cap.initial_count
              THEN [cap EXCEPT !.pc = "exists"]
              ELSE [cap EXCEPT !.pc = "sleep"]
    /\ UNCHANGED <<storeVars, reconVars, restoreVars, kv, probe, moreVars, senv, session_id>>

\* find_latest_session_id: if !session_env_dir.exists() { return Ok(None) }
CaptureExists ==
    /\ cap.pc = "exists"
    /\ cap' = IF senv.exists THEN [cap EXCEPT !.pc = "read"]
              ELSE [cap EXCEPT !.pc = "sleep"]
    /\ UNCHANGED <<storeVars, reconVars, restoreVars, kv, probe, moreVars, senv, session_id>>

\* find_latest_session_id: fs::read_dir(session_env_dir)? and the scan for the
\* newest directory; then is_valid_uuid and store_session, or the warning.
CaptureRead ==
    /\ cap.pc = "read"
    /\ IF ~senv.exists
       THEN /\ cap' = [cap EXCEPT !.pc = "done", !.result = "err", !.raced = TRUE]
            /\ UNCHANGED session_id
       ELSE IF latest_dir(senv) # None /\ latest_dir(senv)[1].uuid
       THEN /\ session_id' = Some(latest_dir(senv)[1].name)
            /\ cap' = [cap EXCEPT !.pc = "done", !.result = "ok"]
       ELSE /\ cap' = [cap EXCEPT !.pc = "sleep"]
            /\ UNCHANGED session_id
    /\ UNCHANGED <<storeVars, reconVars, restoreVars, kv, probe, moreVars, senv>>

\* thread::sleep(poll_interval): at least one poll interval passes.
CaptureSleep ==
    /\ cap.pc = "sleep"
    /\ \E t \in (cap.elapsed + 1)..(MaxTimeout + 1) :
          cap' = [cap EXCEPT !.pc = "while", !.elapsed = t]
    /\ UNCHANGED <<storeVars, reconVars, restoreVars, kv, probe, moreVars, senv, session_id>>

\* The steps of the capture process.
CaptureStep ==
    \/ CaptureDelay
    \/ CaptureWhile
    \/ CaptureCount
    \/ CaptureExists
    \/ CaptureRead
    \/ CaptureSleep

NextCapture ==
    \/ \E d \in SessionDirs : EnvCreate(d)
    \/ \E d \in SessionDirs : EnvTouch(d)
    \/ EnvRemove
    \/ \E n \in 0..2, t \in 0..MaxTimeout, h \in BOOLEAN : CaptureStart(n, t, h)
    \/ CaptureStep

\* The capture process is scheduled as long as it can take a step.
SpecCapture == Init /\ [][NextCapture]_vars /\ WF_vars(CaptureStep)

--------------------------------------------------------------------------
(* The session store, sessions/<repo>/<branch>/session_id, and the command
   `session capture`: src/claude/session.rs, src/command/session.rs.
   Paths are sequences of components below the sessions directory. *)

\* The repository the commands run in: the file name of its main worktree.
Repo == "repo"

\* Branch names: PathBuf::join makes one component of each part between '/'.
Branches == {<<"main">>, <<"feature", "x">>, <<"feature", "y">>}

\* The ids `session capture <branch> <id>` is given: a UUID, no UUID, nothing.
ExplicitIds == {UuidOf("F"), <<"n", "o", "t", "-", "a", "-", "u", "u", "i", "d">>, <<>>}

\* Path::parent
Parent(p) == SubSeq(p, 1, Len(p) - 1)

\* The entries of directory d.
Children(t, d) == {p \in t.dirs \cup DOMAIN t.files : p # <<>> /\ Parent(p) = d}

\* A directory and the directories above it, below the sessions directory.
Prefixes(d) == {SubSeq(d, 1, i) : i \in 1..Len(d)}

\* fs::create_dir_all(d): fails when something on the way is a file.
create_dir_all(t, d) ==
    IF Prefixes(d) \cap DOMAIN t.files # {} THEN [ok |-> FALSE, tree |-> t]
    ELSE [ok |-> TRUE, tree |-> [t EXCEPT !.dirs = @ \cup Prefixes(d)]]

\* fs::write(tmp, content) and fs::rename(tmp, p): p holds content.
write_atomic(t, p, content) ==
    [t EXCEPT !.files = [q \in DOMAIN @ \cup {p} |-> IF q = p THEN content ELSE @[q]]]

\* fs::remove_file(p)
remove_file(t, p) == [t EXCEPT !.files = [q \in DOMAIN @ \ {p} |-> @[q]]]

\* fs::remove_dir(d): only an empty directory is removed, errors are ignored.
remove_dir(t, d) ==
    IF d \in t.dirs /\ Children(t, d) = {} THEN [t EXCEPT !.dirs = @ \ {d}] ELSE t

\* get_session_path(repo, branch)
get_session_path(repo, branch) == <<repo>> \o branch \o <<"session_id">>

\* store_session(repo, branch, session_id): create_dir_all of the parent,
\* write to session_id.tmp, rename. The id is written as given.
store_session(t, repo, branch, id) ==
    LET path == get_session_path(repo, branch)
        made == create_dir_all(t, Parent(path))
    IN  IF made.ok THEN [ok |-> TRUE, tree |-> write_atomic(made.tree, path, id)]
        ELSE made

\* store_repo_path(repo, repo_path): the marker sessions/<repo>/repo_path.
store_repo_path(t, repo) ==
    LET made == create_dir_all(t, <<repo>>)
    IN  IF made.ok
        THEN [ok |-> TRUE, tree |-> write_atomic(made.tree, <<repo, "repo_path">>, <<"repo_root">>)]
        ELSE made

\* str::trim
trim(s) ==
    LET ink == {i \in 1..Len(s) : s[i] # " "}
    IN  IF ink = {} THEN <<>>
        ELSE SubSeq(s, CHOOSE i \in ink : \A j \in ink : i <= j,
                       CHOOSE i \in ink : \A j \in ink : i >= j)

\* get_session(repo, branch): the trimmed content of the file, None when
\* there is no file or nothing in it.
get_session(t, repo, branch) ==
    LET path == get_session_path(repo, branch)
    IN  IF path \notin DOMAIN t.files \/ trim(t.files[path]) = <<>> THEN None
        ELSE Some(trim(t.files[path]))

\* remove_session: branch_dir.parent(), the directory above the one that
\* holds session_id.
branch_dir_parent(repo, branch) == Parent(Parent(get_session_path(repo, branch)))

\* remove_session(repo, branch): remove the file; when there was one, try to
\* remove its directory, look for directories in the directory above
\* (repo_dir), remove repo_dir/repo_path when there is none, try to remove
\* repo_dir.
remove_session(t, repo, branch) ==
    LET path == get_session_path(repo, branch)
        branch_dir == Parent(path)
        repo_dir == branch_dir_parent(repo, branch)
        t1 == remove_dir(remove_file(t, path), branch_dir)
        has_branch_dirs == Children(t1, repo_dir) \cap t1.dirs # {}
        t2 == IF has_branch_dirs THEN t1 ELSE remove_file(t1, repo_dir \o <<"repo_path">>)
    IN  IF path \notin DOMAIN t.files THEN t ELSE remove_dir(t2, repo_dir)

\* capture_latest_session(repo, branch), after the home directory was found.
capture_latest_session(t, e, repo, branch) ==
    IF e.exists /\ latest_dir(e) # None /\ is_valid_uuid(latest_dir(e)[1].name)
    THEN LET stored == store_session(t, repo, branch, latest_dir(e)[1].name)
         IN  [ok |-> stored.ok, tree |-> stored.tree]
    ELSE [ok |-> FALSE, tree |-> t]

\* `workmux session capture <branch> [<id>]` (command::session::capture):
\* store_repo_path, then store_session of the given id, or
\* capture_latest_session, which fails without a home directory and whose
\* None is the error "No Claude session found to capture".
SessionCapture(branch, id, home) ==
    /\ InSetup
    /\ LET marked == store_repo_path(tree, Repo).tree
           done == IF id # None THEN store_session(marked, Repo, branch, id[1])
                   ELSE IF home THEN capture_latest_session(marked, senv, Repo, branch)
                   ELSE [ok |-> FALSE, tree |-> marked]
       IN  /\ tree' = done.tree
           /\ probe' = Some([op |-> "capture", branch |-> branch, id |-> id,
                             before |-> tree,
                             result |-> IF done.ok THEN "ok" ELSE "err"])
    /\ UNCHANGED <<storeVars, reconVars, restoreVars, kv, capVars, shims, guest, lateVars>>

\* remove_session(repo, branch)
RemoveSession(branch) ==
    /\ InSetup
    /\ tree' = remove_session(tree, Repo, branch)
    /\ probe' = Some([op |-> "remove_session", branch |-> branch, before |-> tree,
                      result |-> "ok"])
    /\ UNCHANGED <<storeVars, reconVars, restoreVars, kv, capVars, shims, guest, lateVars>>

NextSession ==
    \/ \E d \in SessionDirs : EnvCreate(d)
    \/ \E b \in Branches, id \in {None} \cup {Some(i) : i \in ExplicitIds}, h \in BOOLEAN :
          SessionCapture(b, id, h)
    \/ \E b \in Branches : RemoveSession(b)

SpecSession == Init /\ [][NextSession]_vars

--------------------------------------------------------------------------
(* Host-exec shims, the command names: src/sandbox/shims.rs *)

\* u8::is_ascii_alphanumeric
is_ascii_alphanumeric(b) ==
    b \in {"0", "1", "2", "3", "4", "5", "6", "7", "8", "9",
           "a", "b", "c", "d", "e", "f", "g", "h", "i", "j", "k", "l", "m",
           "n", "o", "p", "q", "r", "s", "t", "u", "v", "w", "x", "y", "z",
           "A", "B", "C", "D", "E", "F", "G", "H", "I", "J", "K", "L", "M",
           "N", "O", "P", "Q", "R", "S", "T", "U", "V", "W", "X", "Y", "Z"}

RECURSIVE as_bytes(_)
\* str::as_bytes: one byte for an ASCII character, two for "e_acute" (UTF-8).
as_bytes(s) ==
    IF s = <<>> THEN <<>>
    ELSE (IF s[1] = "e_acute" THEN <<"0xC3", "0xA9">> ELSE <<s[1]>>) \o as_bytes(Tail(s))

\* A length test that lets every length pass.
too_long_never(cmd) == FALSE

\* cmd.len() > 64
too_long(cmd) == Len(as_bytes(cmd)) > 64

\* validate_command_name(cmd)
validate_command_name(cmd) ==
    IF cmd = <<>> \/ too_long(cmd) THEN FALSE
    ELSE IF ~is_ascii_alphanumeric(as_bytes(cmd)[1]) THEN FALSE
    ELSE IF ~(\A i \in 1..Len(as_bytes(cmd)) :
                is_ascii_alphanumeric(as_bytes(cmd)[i]) \/ as_bytes(cmd)[i] \in {"-", "_", "."})
    THEN FALSE
    ELSE IF cmd \in {<<".">>, <<".", ".">>, <<"_", "s", "h", "i", "m">>} THEN FALSE
    ELSE TRUE

Afplay == <<"a", "f", "p", "l", "a", "y">>
Just == <<"j", "u", "s", "t">>
Cargo == <<"c", "a", "r", "g", "o">>

\* BUILTIN_HOST_COMMANDS
BUILTIN_HOST_COMMANDS == <<Afplay>>

\* A test that looks at the last command only.
contains_last(commands, cmd) == commands # <<>> /\ commands[Len(commands)] = cmd

\* commands.iter().any(|c| c == cmd)
contains(commands, cmd) == \E i \in 1..Len(commands) : commands[i] = cmd

RECURSIVE push_new(_, _)
\* The loop of effective_host_commands: each user command that commands does
\* not hold yet is pushed.
push_new(commands, user_commands) ==
    IF user_commands = <<>> THEN commands
    ELSE push_new(IF contains(commands, user_commands[1]) THEN commands
                  ELSE Append(commands, user_commands[1]),
                  Tail(user_commands))

\* effective_host_commands(user_commands)
effective_host_commands(user_commands) == push_new(BUILTIN_HOST_COMMANDS, user_commands)

(* Longest probed command name of any characters, and longest user list. *)
MaxCmd == 3
MaxUser == 4

\* The names validate_command_name is called with: every short string of
\* letters, digits, the three marks, and characters that are not allowed;
\* names around the length limit; the reserved names and those of the tests.
ProbeCmds ==
    Strings({"a", "Z", "9", ".", "_", "-", "/", " ", "e_acute"}, MaxCmd)
    \cup {Rep("a", n) : n \in 62..66}
    \cup {Rep("a", 62) \o <<"e_acute">>, Rep("a", 63) \o <<"e_acute">>,
          Rep("a", 63) \o <<".">>, Rep("a", 63) \o <<"/">>, <<"-">> \o Rep("a", 63)}
    \cup {<<"_", "s", "h", "i", "m">>, Afplay, Just, Cargo,
          <<"n", "o", "d", "e", "-", "v", "2", "0">>, <<"g", "o", "1", ".", "2", "1">>,
          <<"/", "b", "i", "n", "/", "r", "m">>, <<"c", "m", "d", ";", "r", "m">>}

\* The user lists effective_host_commands is called with.
ProbeUserCommands ==
    UNION {[1..n -> {Afplay, Just, Cargo}] : n \in 0..MaxUser}

\* validate_command_name(cmd)
ValidateCommandName(cmd) ==
    /\ InSetup
    /\ probe' = Some([op |-> "validate_command_name", cmd |-> cmd,
                      valid |-> validate_command_name(cmd)])
    /\ UNCHANGED <<storeVars, reconVars, restoreVars, kv, capVars, moreVars>>

\* effective_host_commands(user_commands)
EffectiveHostCommands(user_commands) ==
    /\ InSetup
    /\ probe' = Some([op |-> "effective_host_commands", user |-> user_commands,
                      commands |-> effective_host_commands(user_commands)])
    /\ UNCHANGED <<storeVars, reconVars, restoreVars, kv, capVars, moreVars>>

\* One call per run: the functions read and write no state.
NextShimNames ==
    \/ probe = None /\ \E cmd \in ProbeCmds : ValidateCommandName(cmd)
    \/ probe = None /\ \E user \in ProbeUserCommands : EffectiveHostCommands(user)

SpecShimNames == Init /\ [][NextShimNames]_vars

--------------------------------------------------------------------------
(* Host-exec shims, the directory: create_shim_directory, src/sandbox/shims.rs.
   Each file system call of a supervisor is one step. *)

\* The supervisors that share one state directory.
Supervisors == {1, 2}

\* The command lists the supervisors are configured with: valid names, and
\* an invalid one between them.
ShimCommandLists == {<<Just, Cargo>>, <<Just, <<"/", "x">>, Cargo>>}

\* shim_bin.join("_shim")
Dispatcher == <<"_", "s", "h", "i", "m">>

\* shim_bin.join(format!(".{}.tmp", cmd))
shim_tmp(cmd) == <<".">> \o cmd \o <<".", "t", "m", "p">>

\* The supervisors get their command list; nothing exists yet.
ShimConfigure(commands) ==
    /\ InSetup
    /\ shims = [pc |-> "none"]
    /\ shims' = [pc |-> "run", commands |-> commands, exists |-> FALSE, bin |-> <<>>,
                 procs |-> [p \in Supervisors |-> [pc |-> "idle", i |-> 0, result |-> "none"]]]
    /\ UNCHANGED <<storeVars, reconVars, restoreVars, kv, probe, capVars, tree, guest, lateVars>>

ShimAt(p, place) == shims.pc = "run" /\ shims.procs[p].pc = place

\* The command supervisor p is at.
ShimCmd(p) == shims.commands[shims.procs[p].i]

\* The place of a supervisor that turns to its command number i: past the
\* last one it returns Ok(shim_bin), an invalid name is skipped.
RECURSIVE ShimGoto(_, _)
ShimGoto(commands, i) ==
    IF i > Len(commands) THEN [pc |-> "done", i |-> i, result |-> "ok"]
    ELSE IF ~validate_command_name(commands[i]) THEN ShimGoto(commands, i + 1)
    ELSE [pc |-> "remove_tmp", i |-> i, result |-> "none"]

ShimFrame == UNCHANGED <<storeVars, reconVars, restoreVars, kv, probe, capVars, tree, guest, lateVars>>

\* create_shim_directory(state_dir, commands) is called.
ShimBegin(p) ==
    /\ ShimAt(p, "idle")
    /\ shims' = [shims EXCEPT !.procs[p].pc = "create_dir_all"]
    /\ ShimFrame

\* fs::create_dir_all(&shim_bin)
ShimCreateDir(p) ==
    /\ ShimAt(p, "create_dir_all")
    /\ shims' = [shims EXCEPT !.exists = TRUE, !.procs[p].pc = "write"]
    /\ ShimFrame

\* fs::write(&dispatcher, ..)
ShimWriteDispatcher(p) ==
    /\ ShimAt(p, "write")
    /\ shims' = [shims EXCEPT !.bin = Link(@, Dispatcher, "script"),
                              !.procs[p].pc = "set_permissions"]
    /\ ShimFrame

\* fs::set_permissions(&dispatcher, 0o755), then the first command.
ShimSetPermissions(p) ==
    /\ ShimAt(p, "set_permissions")
    /\ shims' = [shims EXCEPT !.procs[p] = ShimGoto(shims.commands, 1)]
    /\ ShimFrame

\* let _ = fs::remove_file(&tmp)
ShimRemoveTmp(p) ==
    /\ ShimAt(p, "remove_tmp")
    /\ shims' = [shims EXCEPT !.bin = Unlink(@, shim_tmp(ShimCmd(p))),
                              !.procs[p].pc = "symlink"]
    /\ ShimFrame

\* symlink("_shim", &tmp)?: an error (EEXIST) when tmp exists.
ShimSymlink(p) ==
    /\ ShimAt(p, "symlink")
    /\ shims' = IF shim_tmp(ShimCmd(p)) \in DOMAIN shims.bin
                THEN [shims EXCEPT !.procs[p].pc = "done", !.procs[p].result = "err"]
                ELSE [shims EXCEPT !.bin = Link(@, shim_tmp(ShimCmd(p)), "symlink to _shim"),
                                   !.procs[p].pc = "rename"]
    /\ ShimFrame

\* fs::rename(&tmp, &link)?: an error (ENOENT) when tmp does not exist; then
\* the next command.
ShimRename(p) ==
    /\ ShimAt(p, "rename")
    /\ shims' = IF shim_tmp(ShimCmd(p)) \notin DOMAIN shims.bin
                THEN [shims EXCEPT !.procs[p].pc = "done", !.procs[p].result = "err"]
                ELSE [shims EXCEPT
                        !.bin = Link(Unlink(@, shim_tmp(ShimCmd(p))), ShimCmd(p),
                                     shims.bin[shim_tmp(ShimCmd(p))]),
                        !.procs[p] = ShimGoto(shims.commands, shims.procs[p].i + 1)]
    /\ ShimFrame

NextShims ==
    \/ \E commands \in ShimCommandLists : ShimConfigure(commands)
    \/ \E p \in Supervisors :
          \/ ShimBegin(p)
          \/ ShimCreateDir(p)
          \/ ShimWriteDispatcher(p)
          \/ ShimSetPermissions(p)
          \/ ShimRemoveTmp(p)
          \/ ShimSymlink(p)
          \/ ShimRename(p)

SpecShims == Init /\ [][NextShims]_vars

--------------------------------------------------------------------------
(* Commands that may run inside a sandbox guest: src/command/host_exec.rs,
   src/command/merge.rs, src/command/set_window_status.rs. The RPC client
   (sandbox::rpc) and the guest test (sandbox::guest) are not among the
   sources; they are modelled from the specification, sections 4.5 and 6. *)

(* Most frames the host sends before the connection ends. *)
MaxFrames == 3

\* The environments of a command: WM_SANDBOX_GUEST and TMUX_PANE, set or not.
GuestEnvs ==
    [WM_SANDBOX_GUEST : {None, Some("1"), Some("0")}, TMUX_PANE : {None, Some("%1")}]

\* sandbox::guest::is_sandbox_guest(): the guest is marked by WM_SANDBOX_GUEST=1.
is_sandbox_guest(env) == env.WM_SANDBOX_GUEST = Some("1")

\* The responses of the host (RpcResponse).
Frames ==
    {[tag |-> "ExecOutput", data |-> "a"], [tag |-> "ExecOutput", data |-> "b"],
     [tag |-> "ExecError", data |-> "x"],
     [tag |-> "ExecExit", code |-> 0], [tag |-> "ExecExit", code |-> 3],
     [tag |-> "Error", message |-> "failed"],
     [tag |-> "Output", message |-> "m"], [tag |-> "Ok"]}

\* What client.recv() returns: a frame, or an error when the connection broke.
Received == Frames \cup {[tag |-> "transport failure"]}

\* A host-exec that takes the host's Error for a frame to skip.
exec_step_ignores_error(frame) ==
    CASE frame.tag = "ExecOutput" -> "stdout"
      [] frame.tag = "ExecError" -> "stderr"
      [] frame.tag = "ExecExit" -> "return"
      [] OTHER -> "ignore"

\* host_exec::run, the match on a response.
exec_step(frame) ==
    CASE frame.tag = "ExecOutput" -> "stdout"
      [] frame.tag = "ExecError" -> "stderr"
      [] frame.tag = "ExecExit" -> "return"
      [] frame.tag = "Error" -> "bail"
      [] OTHER -> "ignore"

\* merge::run_via_rpc, the match on a response.
merge_step(frame) ==
    CASE frame.tag = "Output" -> "stdout"
      [] frame.tag = "Ok" -> "return"
      [] frame.tag = "Error" -> "bail"
      [] OTHER -> "ignore"

\* A host-exec that connects whether in a guest or not.
host_exec_entry_connects(env) == "from_env"

\* host_exec::run, its first statement: bail outside a sandbox guest.
host_exec_entry(env) == IF is_sandbox_guest(env) THEN "from_env" ELSE "bail"

\* A command that has not done anything yet.
CommandRun(cmd, env) ==
    [pc |-> "run", cmd |-> cmd, arg |-> "", env |-> env, rpc |-> FALSE, sent |-> <<>>,
     received |-> <<>>, stdout |-> <<>>, stderr |-> <<>>, local |-> <<>>,
     result |-> [kind |-> "none"]]

Failed(g, message) == [g EXCEPT !.pc = "done", !.result = [kind |-> "err", message |-> message]]

GuestFrame == UNCHANGED <<storeVars, reconVars, restoreVars, kv, probe, capVars, tree, shims, lateVars>>

\* `workmux host-exec <command> <args>`: host_exec::run up to RpcClient::from_env.
HostExec(env) ==
    /\ InSetup
    /\ guest.pc = "none"
    /\ guest' = IF host_exec_entry(env) = "bail"
                THEN Failed(CommandRun("host-exec", env), "only works inside a sandbox guest")
                ELSE [CommandRun("host-exec", env) EXCEPT !.pc = "from_env"]
    /\ GuestFrame

\* RpcClient::from_env()?: connects and authenticates, or fails.
RpcFromEnv ==
    /\ guest.pc = "from_env"
    /\ \E ok \in BOOLEAN :
          guest' = IF ok THEN [guest EXCEPT !.pc = "send", !.rpc = TRUE]
                   ELSE Failed([guest EXCEPT !.rpc = TRUE], "from_env")
    /\ GuestFrame

\* client.send(&request)?: RpcRequest::Exec or RpcRequest::Merge.
RpcSend ==
    /\ guest.pc = "send"
    /\ \E ok \in BOOLEAN :
          guest' = IF ok
                   THEN [guest EXCEPT !.pc = "recv",
                           !.sent = Append(@, IF guest.cmd = "merge" THEN "Merge" ELSE "Exec")]
                   ELSE Failed(guest, "send")
    /\ GuestFrame

\* One turn of a loop around client.recv()?: the frame goes to stdout or
\* stderr, ends the command, or is skipped.
Turn(g, frame, step) ==
    LET taken == [g EXCEPT !.received = Append(@, frame)]
    IN  CASE frame.tag = "transport failure" -> Failed(taken, "recv")
          [] step = "stdout" ->
                [taken EXCEPT !.stdout = Append(@, IF frame.tag = "Output" THEN frame.message
                                                 ELSE frame.data)]
          [] step = "stderr" -> [taken EXCEPT !.stderr = Append(@, frame.data)]
          [] step = "return" ->
                [taken EXCEPT !.pc = "done",
                            !.result = IF frame.tag = "ExecExit"
                                       THEN [kind |-> "ok", code |-> frame.code]
                                       ELSE [kind |-> "ok"]]
          [] step = "bail" -> Failed(taken, frame.message)
          [] OTHER -> taken

\* What can arrive next: any frame while fewer than MaxFrames have, and the
\* end of the connection.
Arrivals(g) ==
    IF Len(g.received) < MaxFrames THEN Received ELSE {[tag |-> "transport failure"]}

\* host_exec::run, one turn of its loop.
HostExecRecv ==
    /\ guest.pc = "recv"
    /\ guest.cmd = "host-exec"
    /\ \E frame \in Arrivals(guest) :
          guest' = Turn(guest, frame,
                        IF frame.tag = "transport failure" THEN "fail" ELSE exec_step(frame))
    /\ GuestFrame

\* super::resolve_name(name): the name given, or one derived from the
\* current directory, which can fail.
resolve_name(name, derived) == IF name # None THEN name ELSE derived

\* `workmux merge [name]`: merge::run. In a sandbox guest resolve_name and
\* run_via_rpc; otherwise Config::load and workflow::merge on the host's
\* multiplexer and repository, which succeed or fail.
Merge(env, name, derived, local_ok) ==
    /\ InSetup
    /\ guest.pc = "none"
    /\ guest' =
          IF is_sandbox_guest(env)
          THEN IF resolve_name(name, derived) = None
               THEN Failed(CommandRun("merge", env), "resolve_name")
               ELSE [CommandRun("merge", env) EXCEPT !.pc = "from_env"]
          ELSE IF resolve_name(name, derived) = None
          THEN Failed([CommandRun("merge", env) EXCEPT !.local = <<"Config::load">>],
                      "resolve_name")
          ELSE LET ran == [CommandRun("merge", env) EXCEPT
                             !.local = <<"Config::load", "create_backend",
                                         "WorkflowContext::new", "workflow::merge">>]
               IN  IF local_ok THEN [ran EXCEPT !.pc = "done", !.result = [kind |-> "ok"]]
                   ELSE Failed(ran, "Failed to merge worktree")
    /\ GuestFrame

\* merge::run_via_rpc, one turn of its loop.
MergeRecv ==
    /\ guest.pc = "recv"
    /\ guest.cmd = "merge"
    /\ \E frame \in Arrivals(guest) :
          guest' = Turn(guest, frame,
                        IF frame.tag = "transport failure" THEN "fail" ELSE merge_step(frame))
    /\ GuestFrame

\* SetWindowStatusCommand
SetWindowStatusCommands == {"working", "waiting", "done", "clear"}

\* What Config::load(None) returns: an error, or a configuration with
\* status_format unset, true or false.
LoadedConfigs ==
    {[ok |-> FALSE]} \cup {[ok |-> TRUE, status_format |-> f] : f \in {None, Some(TRUE), Some(FALSE)}}

\* A pane lookup that falls back to a pane when TMUX_PANE is not set.
tmux_pane_or_default(env) == IF env.TMUX_PANE = None THEN Some("%0") ELSE env.TMUX_PANE

\* std::env::var("TMUX_PANE")
tmux_pane(env) == env.TMUX_PANE

\* set_status(pane, icon): the tmux commands it runs; the last one only when
\* the pane has a current command.
set_status(current_cmd) ==
    <<"tmux set-option -w @workmux_status", "tmux set-option -w @workmux_status_ts",
      "tmux set-option -p @workmux_pane_status", "tmux set-option -p @workmux_pane_status_ts",
      "tmux get_pane_current_command">>
    \o (IF current_cmd # "" THEN <<"tmux set-option -p @workmux_pane_command">> ELSE <<>>)

\* clear_status(pane): the tmux commands it runs.
clear_status ==
    <<"tmux set-option -uw @workmux_status", "tmux set-option -uw @workmux_status_ts",
      "tmux set-option -up @workmux_pane_status", "tmux set-option -up @workmux_pane_status_ts",
      "tmux set-option -up @workmux_pane_command">>

\* `workmux set-window-status <cmd>`: set_window_status::run. Without
\* TMUX_PANE it returns Ok(()) at once; else Config::load, the status format
\* unless the command is clear or the configuration says no, and set_status
\* or clear_status. The errors of the tmux commands are ignored.
SetWindowStatus(cmd, env, config, current_cmd) ==
    /\ InSetup
    /\ guest.pc = "none"
    /\ LET begun == [CommandRun("set-window-status", env) EXCEPT !.arg = cmd]
           format == IF config.status_format = None THEN TRUE ELSE config.status_format[1]
       IN  guest' =
             IF tmux_pane(env) = None THEN [begun EXCEPT !.pc = "done", !.result = [kind |-> "ok"]]
             ELSE IF ~config.ok THEN Failed([begun EXCEPT !.local = <<"Config::load">>], "Config::load")
             ELSE [begun EXCEPT
                     !.pc = "done", !.result = [kind |-> "ok"],
                     !.local = <<"Config::load">>
                               \o (IF format /\ cmd # "clear"
                                   THEN <<"tmux ensure_status_format">> ELSE <<>>)
                               \o (IF cmd = "clear" THEN clear_status
                                   ELSE set_status(current_cmd))]
    /\ GuestFrame

NextGuest ==
    \/ \E env \in GuestEnvs : HostExec(env)
    \/ \E env \in GuestEnvs, name \in {None, Some("feat")}, derived \in {None, Some("here")},
          local_ok \in BOOLEAN : Merge(env, name, derived, local_ok)
    \/ \E cmd \in SetWindowStatusCommands, env \in GuestEnvs, config \in LoadedConfigs,
          current_cmd \in {"", "node"} : SetWindowStatus(cmd, env, config, current_cmd)
    \/ RpcFromEnv
    \/ RpcSend
    \/ HostExecRecv
    \/ MergeRecv

SpecGuest == Init /\ [][NextGuest]_vars

--------------------------------------------------------------------------
(* Run artifacts: runs/<run_id>/{spec.json, stdout, stderr, result.json}.   *)
(* `workmux run` creates the directory and splits a pane whose process      *)
(* ends by calling write_result; with --wait the caller polls read_result.  *)
(* Time is counted in ticks since the poll loop started (start = 0).        *)

MaxClock == 3

RunResults ==
    { [exit_code |-> Some(0), signal |-> None],
      [exit_code |-> Some(3), signal |-> None],
      [exit_code |-> None, signal |-> Some(9)] }

RunTimeouts == {None} \cup {Some(t) : t \in 0..(MaxClock - 2)}

SpecJson == [kind |-> "spec"]
Json(result) == [kind |-> "json", result |-> result]

NoFiles == [n \in {} |-> Empty]
WithFile(files, name, content) ==
    [n \in DOMAIN files \cup {name} |-> IF n = name THEN content ELSE files[n]]
WithoutFile(files, name) == [n \in DOMAIN files \ {name} |-> files[n]]

(* create_run: the directory, spec.json and the two empty output files *)
create_run == [n \in {"spec.json", "stdout", "stderr"} |->
                 IF n = "spec.json" THEN SpecJson ELSE Empty]

(* serde_json::from_str of a file's content: only a whole result parses *)
from_str(content) ==
    IF content.kind = "json" THEN Some(content.result) ELSE None

(* what a call of read_result returned: Ok(None), Err, Ok(Some(result)) *)
Absent == [kind |-> "none"]
Unreadable == [kind |-> "error"]
Complete(result) == [kind |-> "some", result |-> result]

(* write_result's tmp_path *)
result_tmp_in_place == "result.json"
result_tmp == "result.json.tmp"

unwrap_or(opt, default) == IF opt = None THEN default ELSE opt[1]

(* result.exit_code.unwrap_or(1) *)
exit_code_of(result) == unwrap_or(result.exit_code, 1)

RunFrame == UNCHANGED <<storeVars, reconVars, restoreVars, kv, probe, capVars,
                        tree, shims, guest, pass, captors>>

(* run: create_run, split_pane with the __exec command, and the return    *)
(* without --wait                                                         *)
RunStart(wait, keep, timeout, result) ==
    /\ art.pc = "none"
    /\ art' = [pc |-> "run", wait |-> wait, keep |-> keep, timeout |-> timeout,
               result |-> result, exists |-> TRUE, files |-> create_run,
               w |-> "running",
               p |-> IF wait THEN "timeout" ELSE "exited",
               how |-> IF wait THEN "none" ELSE "started",
               code |-> IF wait THEN None ELSE Some(0),
               now |-> 0, renamed_at |-> None, present |-> FALSE,
               seen |-> None]
    /\ RunFrame

(* write_result, fs::write(&tmp_path, content): open with O_CREAT|O_TRUNC *)
WriteResultCreate ==
    /\ art.pc = "run" /\ art.w = "running"
    /\ art' = IF art.exists
              THEN [art EXCEPT !.w = "created",
                               !.files = WithFile(@, result_tmp, Empty)]
              ELSE [art EXCEPT !.w = "failed"]
    /\ RunFrame

(* write_result, fs::write: write_all on the open file (a file that was   *)
(* unlinked meanwhile gets the bytes but has no name)                     *)
WriteResultFill ==
    /\ art.pc = "run" /\ art.w = "created"
    /\ art' = IF result_tmp \in DOMAIN art.files
              THEN [art EXCEPT !.w = "written",
                               !.files = WithFile(@, result_tmp, Json(art.result))]
              ELSE [art EXCEPT !.w = "written"]
    /\ RunFrame

(* write_result, fs::rename(&tmp_path, &final_path)? *)
WriteResultRename ==
    /\ art.pc = "run" /\ art.w = "written"
    /\ art' = IF result_tmp \in DOMAIN art.files
              THEN [art EXCEPT !.w = "done",
                               !.files = WithFile(WithoutFile(@, result_tmp),
                                                  "result.json", @[result_tmp]),
                               !.renamed_at = Some(art.now)]
              ELSE [art EXCEPT !.w = "failed"]
    /\ RunFrame

(* the loop's first statement: the timeout test, before read_result *)
PollTimeout ==
    /\ art.pc = "run" /\ art.p = "timeout"
    /\ art' = IF art.timeout # None /\ art.now > art.timeout[1]
              THEN [art EXCEPT !.how = "timeout", !.code = Some(124),
                               !.p = IF art.keep THEN "exited" ELSE "cleanup"]
              ELSE [art EXCEPT !.p = "exists"]
    /\ RunFrame

(* read_result: `if !path.exists() { return Ok(None) }`; then the sleep *)
PollExists ==
    /\ art.pc = "run" /\ art.p = "exists"
    /\ LET here == art.exists /\ "result.json" \in DOMAIN art.files
       IN art' = IF here
                 THEN [art EXCEPT !.p = "read", !.present = art.w = "done"]
                 ELSE [art EXCEPT !.p = "sleep", !.present = art.w = "done",
                                  !.seen = Some([completed |-> art.w = "done",
                                                 out |-> Absent])]
    /\ RunFrame

(* read_result: read_to_string and from_str; then the caller reads stdout *)
(* and stderr (unwrap_or_default) and takes the exit code                 *)
PollRead ==
    /\ art.pc = "run" /\ art.p = "read"
    /\ LET parsed == from_str(art.files["result.json"])
       IN art' = IF parsed = None
                 THEN [art EXCEPT !.p = "exited", !.how = "error",
                                  !.code = Some(1),
                                  !.seen = Some([completed |-> art.present,
                                                 out |-> Unreadable])]
                 ELSE [art EXCEPT !.p = IF art.keep THEN "exited" ELSE "cleanup",
                                  !.how = "result",
                                  !.code = Some(exit_code_of(parsed[1])),
                                  !.seen = Some([completed |-> art.present,
                                                 out |-> Complete(parsed[1])])]
    /\ RunFrame

(* thread::sleep(200 ms) *)
PollSleep ==
    /\ art.pc = "run" /\ art.p = "sleep"
    /\ art' = [art EXCEPT !.p = "timeout"]
    /\ RunFrame

(* cleanup_run: `if run_dir.exists()`, and remove_dir_all unlinking the   *)
(* entries it has read                                                    *)
CleanupUnlink ==
    /\ art.pc = "run" /\ art.p = "cleanup"
    /\ art' = IF art.exists
              THEN [art EXCEPT !.p = "rmdir", !.files = NoFiles]
              ELSE [art EXCEPT !.p = "exited"]
    /\ RunFrame

(* remove_dir_all's last step, rmdir, which fails on a directory that got *)
(* a new entry; `let _ =` drops the error; then exit(code) or return      *)
CleanupRmdir ==
    /\ art.pc = "run" /\ art.p = "rmdir"
    /\ art' = [art EXCEPT !.p = "exited",
                          !.exists = DOMAIN art.files # {}]
    /\ RunFrame

(* start.elapsed() grows *)
Tick ==
    /\ art.pc = "run" /\ art.p # "exited"
    /\ art.now < MaxClock
    /\ art' = [art EXCEPT !.now = @ + 1]
    /\ RunFrame

NextRun ==
    \/ \E wait \in BOOLEAN, keep \in BOOLEAN, timeout \in RunTimeouts,
          result \in RunResults : RunStart(wait, keep, timeout, result)
    \/ WriteResultCreate
    \/ WriteResultFill
    \/ WriteResultRename
    \/ PollTimeout
    \/ PollExists
    \/ PollRead
    \/ PollSleep
    \/ CleanupUnlink
    \/ CleanupRmdir
    \/ Tick

SpecRun == Init /\ [][NextRun]_vars

--------------------------------------------------------------------------
(* Toolchain wrapping of a host-exec command (sandbox/toolchain.rs).       *)
(* A script is a sequence of pieces of text; a command and each of its     *)
(* arguments is one piece.                                                 *)

MaxArgs == 2

Toolchains == {"Devbox", "Flake", "None"}
WrappedCommands == {"cargo", "just", "ls"}
WrappedArgs == {"build", "'; rm -rf ~; '"}
ArgLists == UNION {[1..n -> WrappedArgs] : n \in 0..MaxArgs}

DevboxCache ==
    << "_WM_CWD=\"$PWD\"; ",
       "_WM_HASH=$(cat devbox.json devbox.lock 2>/dev/null | (md5sum 2>/dev/null || md5 -q) | cut -d\" \" -f1); ",
       "_WM_CACHE=\"$HOME/.cache/workmux/devbox/$_WM_HASH\"; ",
       "if [ ! -f \"$_WM_CACHE/devbox.json\" ]; then ",
       "mkdir -p \"$_WM_CACHE\" && ",
       "cp devbox.json \"$_WM_CACHE/\" && ",
       "{ [ ! -f devbox.lock ] || cp devbox.lock \"$_WM_CACHE/\"; }; ",
       "fi; ",
       "export _WM_CWD; " >>

(* wrap_command: the agent-launch wrapper, which embeds the command *)
wrap_command(command, toolchain) ==
    CASE toolchain = "Devbox" ->
           DevboxCache \o << "devbox run -c \"$_WM_CACHE\" -- 'cd \"$_WM_CWD\" && ",
                             command, "'" >>
      [] toolchain = "Flake" ->
           << "nix develop --command bash -c '", command, "'" >>
      [] OTHER -> << command >>

toolchain_wrapper_script_embedding(toolchain) ==
    IF toolchain = "None" THEN None
    ELSE Some(wrap_command("cargo", toolchain))
toolchain_wrapper_script(toolchain) ==
    CASE toolchain = "Devbox" ->
           Some(DevboxCache \o
                << "devbox run -c \"$_WM_CACHE\" -- bash -c 'cd \"$_WM_CWD\" && exec \"$@\"' -- \"$@\"" >>)
      [] toolchain = "Flake" ->
           Some(<< "nix develop --command bash -c 'exec \"$@\"' -- \"$@\"" >>)
      [] OTHER -> None

(* the use of the script: bash -c <script> -- <command> <args...>; with no *)
(* toolchain the command is run as it is                                   *)
wrapper_argv(script, command, args) ==
    IF script = None THEN << command >> \o args
    ELSE << "bash", "-c", script[1], "--", command >> \o args

PureFrame == UNCHANGED <<storeVars, reconVars, restoreVars, kv, capVars, moreVars>>

WrapCall(toolchain, command, args) ==
    LET script == toolchain_wrapper_script(toolchain)
    IN [command |-> command, args |-> args, script |-> script,
        argv |-> wrapper_argv(script, command, args)]

(* two host-exec commands wrapped under one toolchain *)
ToolchainWrapper(toolchain, c1, a1, c2, a2) ==
    /\ probe = None
    /\ probe' = Some([fn |-> "toolchain_wrapper_script", toolchain |-> toolchain,
                      calls |-> << WrapCall(toolchain, c1, a1),
                                   WrapCall(toolchain, c2, a2) >>])
    /\ PureFrame

NextToolchain ==
    /\ probe = None
    /\ \E toolchain \in Toolchains, c1 \in WrappedCommands, c2 \in WrappedCommands,
          a1 \in ArgLists, a2 \in ArgLists :
          ToolchainWrapper(toolchain, c1, a1, c2, a2)

SpecToolchain == Init /\ [][NextToolchain]_vars

--------------------------------------------------------------------------
(* The Lima sandbox wrapper (sandbox/lima/wrap.rs). A text is a sequence   *)
(* of characters; a fixed word of the command line counts as one           *)
(* character that is not special to the shell.                             *)

MaxText == 2

Quote == "'"
Backslash == "\\"
Space == " "

TextChars == {"a", Space, Quote, Backslash}
Texts == UNION {[1..n -> TextChars] : n \in 0..MaxText}
(* a path may hold a byte that is not UTF-8 *)
PathBytes == TextChars \cup {"0xFF"}
Paths == UNION {[1..n -> PathBytes] : n \in 1..MaxText}
EnvValues == {None, Some(<< Quote >>), Some(<< "a", Space, Quote, "a" >>)}

(* Path::to_string_lossy: an invalid byte becomes U+FFFD *)
to_string_lossy(path) ==
    [i \in DOMAIN path |-> IF path[i] = "0xFF" THEN "U+FFFD" ELSE path[i]]

RECURSIVE shell_escape_backslash(_)
shell_escape_backslash(s) ==
    IF s = <<>> THEN <<>>
    ELSE (IF Head(s) = Quote THEN << Backslash, Quote >> ELSE << Head(s) >>)
         \o shell_escape_backslash(Tail(s))

(* shell_escape: s.replace('\'', "'\\''") *)
RECURSIVE shell_escape(_)
shell_escape(s) ==
    IF s = <<>> THEN <<>>
    ELSE (IF Head(s) = Quote THEN << Quote, Backslash, Quote, Quote >>
          ELSE << Head(s) >>)
         \o shell_escape(Tail(s))

(* the inner script: format!("cd '{}' && {}", shell_escape(dir), command) *)
inner_script(command, working_dir) ==
    << "cd", Space, Quote >> \o shell_escape(to_string_lossy(working_dir))
       \o << Quote, Space, "&&", Space >> \o command

(* wrap_for_lima, with at most one variable passed through *)
wrap_for_lima(command, env, vm_name, working_dir) ==
    << "limactl", Space, "shell", Space, vm_name >>
       \o (IF env = None THEN <<>>
           ELSE << Space, "--setenv", Space, "MY_VAR", "=", Quote >>
                \o shell_escape(env[1]) \o << Quote >>)
       \o << Space, "--", Space, "sh", Space, "-c", Space, Quote >>
       \o shell_escape(inner_script(command, working_dir)) \o << Quote >>

(* How sh reads one word from position i: a quote opens a text that runs   *)
(* to the next quote, a backslash outside quotes takes the next character  *)
(* as it is, a space outside quotes ends the word.                         *)
RECURSIVE sh_word(_, _, _, _)
sh_word(s, i, quoted, acc) ==
    IF i > Len(s) THEN [word |-> acc, next |-> i, closed |-> ~ quoted]
    ELSE IF quoted
         THEN IF s[i] = Quote THEN sh_word(s, i + 1, FALSE, acc)
              ELSE sh_word(s, i + 1, TRUE, Append(acc, s[i]))
         ELSE CASE s[i] = Quote -> sh_word(s, i + 1, TRUE, acc)
                [] s[i] = Backslash ->
                     IF i + 1 > Len(s)
                     THEN [word |-> acc, next |-> i + 1, closed |-> FALSE]
                     ELSE sh_word(s, i + 2, FALSE, Append(acc, s[i + 1]))
                [] s[i] = Space -> [word |-> acc, next |-> i + 1, closed |-> TRUE]
                [] OTHER -> sh_word(s, i + 1, FALSE, Append(acc, s[i]))

(* the words of a command line; an unclosed quote leaves a last word "?" *)
RECURSIVE sh_words(_, _)
sh_words(s, i) ==
    IF i > Len(s) THEN <<>>
    ELSE LET w == sh_word(s, i, FALSE, <<>>)
         IN IF w.closed THEN << w.word >> \o sh_words(s, w.next)
            ELSE << w.word, << "?" >> >>

WrapForLima(command, env, working_dir) ==
    /\ probe = None
    /\ probe' = Some([fn |-> "wrap_for_lima", command |-> command, env |-> env,
                      working_dir |-> working_dir,
                      out |-> wrap_for_lima(command, env, "wm-abc", working_dir)])
    /\ PureFrame

NextLima ==
    /\ probe = None
    /\ \E command \in Texts, env \in EnvValues, working_dir \in Paths :
          WrapForLima(command, env, working_dir)

SpecLima == Init /\ [][NextLima]_vars

--------------------------------------------------------------------------
(* Aggregation of pull request checks (github.rs) *)

MaxChecks == 2

CheckStatuses ==
    {None, Some("SUCCESS"), Some("FAILURE"), Some("ERROR"), Some("IN_PROGRESS"),
     Some("COMPLETED")}
CheckConclusions ==
    {None, Some("SUCCESS"), Some("FAILURE"), Some("CANCELLED"), Some("SKIPPED"),
     Some("NEUTRAL")}

(* CheckRollupItem *)
CheckRollupItems == [status : CheckStatuses, conclusion : CheckConclusions]
CheckLists == UNION {[1..n -> CheckRollupItems] : n \in 0..MaxChecks}

NoCounts == [passed |-> 0, failed |-> 0, pending |-> 0, skipped |-> 0]

(* one turn of the loop: the match on (status, conclusion), arm by arm;   *)
(* the u32 counters count the checks of one list and cannot wrap         *)
count_check(c, check) ==
    LET status == unwrap_or(check.status, "")
        conclusion == unwrap_or(check.conclusion, "")
    IN CASE conclusion = "SUCCESS" \/ status = "SUCCESS" ->
              [c EXCEPT !.passed = @ + 1]
         [] conclusion \in {"FAILURE", "CANCELLED", "TIMED_OUT", "STARTUP_FAILURE",
                            "ACTION_REQUIRED"}
              \/ status \in {"FAILURE", "ERROR"} ->
              [c EXCEPT !.failed = @ + 1]
         [] conclusion \in {"NEUTRAL", "SKIPPED"} ->
              [c EXCEPT !.skipped = @ + 1]
         [] status \in {"IN_PROGRESS", "QUEUED", "PENDING", "REQUESTED", "WAITING"} ->
              [c EXCEPT !.pending = @ + 1]
         [] OTHER -> c

RECURSIVE count_checks(_, _)
count_checks(c, checks) ==
    IF checks = <<>> THEN c
    ELSE count_checks(count_check(c, Head(checks)), Tail(checks))

Success == [kind |-> "Success"]
Failure(passed, total) == [kind |-> "Failure", passed |-> passed, total |-> total]
Pending(passed, total) == [kind |-> "Pending", passed |-> passed, total |-> total]

aggregate_checks_pending_first(checks) ==
    IF checks = <<>> THEN None
    ELSE LET c == count_checks(NoCounts, checks)
             total == c.passed + c.failed + c.pending
         IN IF total = 0
            THEN (IF c.skipped > 0 THEN Some(Success) ELSE None)
            ELSE Some(IF c.pending > 0 THEN Pending(c.passed, total)
                      ELSE IF c.failed > 0 THEN Failure(c.passed, total)
                      ELSE Success)
aggregate_checks(checks) ==
    IF checks = <<>> THEN None
    ELSE LET c == count_checks(NoCounts, checks)
             total == c.passed + c.failed + c.pending
         IN IF total = 0
            THEN (IF c.skipped > 0 THEN Some(Success) ELSE None)
            ELSE Some(IF c.failed > 0 THEN Failure(c.passed, total)
                      ELSE IF c.pending > 0 THEN Pending(c.passed, total)
                      ELSE Success)

AggregateChecks(checks) ==
    /\ probe = None
    /\ probe' = Some([fn |-> "aggregate_checks", checks |-> checks,
                      out |-> aggregate_checks(checks)])
    /\ PureFrame

NextChecks ==
    /\ probe = None
    /\ \E checks \in CheckLists : AggregateChecks(checks)

SpecChecks == Init /\ [][NextChecks]_vars

--------------------------------------------------------------------------
(* load_reconciled_agents taken statement by statement, beside a hook that *)
(* calls upsert_agent for a live pane.                                     *)

(* the records the store holds before the pass: written when the pane's    *)
(* shell had pid 111 and ran "node"                                        *)
PassStates ==
    {AgentState(k, WtA, Some("waiting"), Some(1000), None, 111, "node", 1000, FALSE) :
        k \in LocalKeys}

(* the records a hook in a live pane writes during the pass *)
WriterStates ==
    {AgentState(k, WtA, Some("working"), Some(2000), None, pid, c, 2000, FALSE) :
        k \in LocalKeys, pid \in Pids, c \in Commands}

(* the record is the one of the live pane: its pid and its command *)
MatchesLive(state, lv) ==
    /\ state.pane_key.pane_id \in DOMAIN lv
    /\ lv[state.pane_key.pane_id].pid = state.pane_pid
    /\ lv[state.pane_key.pane_id].current_command = state.command

PassFrame == UNCHANGED <<pc, req, fd, res, nops, written, renamed, listed, got,
                         restoreVars, kv, probe, capVars, tree, shims, guest,
                         art, captors>>

(* let all_agents = self.list_all_agents()? *)
PassList ==
    /\ phase = "setup" /\ pass.pc = "none"
    /\ pass' = [pc |-> "live", todo |-> list_all_agents(dir, data),
                all |-> list_all_agents(dir, data),
                snapshot |-> <<>>, wrote |-> None]
    /\ dir' = DirAfterList(dir, data)
    /\ data' = Collect(dir', fd, data)
    /\ phase' = "pass"
    /\ UNCHANGED <<live, pre, valid_agents, emitted, cleared, orphans>>
    /\ PassFrame

(* let live_panes = mux.get_all_live_pane_info()? *)
PassLive ==
    /\ pass.pc = "live"
    /\ pass' = [pass EXCEPT !.pc = IF pass.todo = {} THEN "done" ELSE "loop",
                            !.snapshot = live]
    /\ UNCHANGED <<dir, data, reconVars>>
    /\ PassFrame

(* one turn of `for state in all_agents` *)
PassStep(state) ==
    /\ pass.pc = "loop"
    /\ state \in pass.todo
    /\ LET verdict == Verdict(state, pass.snapshot)
           lp == LiveOf(pass.snapshot, state)
       IN /\ dir' = IF verdict \in {"gone", "pid", "exited"}
                    THEN DeleteAll(dir, {state.pane_key}) ELSE dir
          /\ data' = Collect(dir', fd, data)
          /\ cleared' = IF ClearsStatus(verdict)
                        THEN cleared \cup {state.pane_key.pane_id} ELSE cleared
          /\ valid_agents' =
                IF verdict \in {"keep", "valid"}
                THEN valid_agents \cup
                       {to_agent_pane(state, unwrap_or_default(lp[1].session),
                                      unwrap_or_default(lp[1].window), lp[1].title)}
                ELSE valid_agents
          /\ emitted' = IF verdict \in {"keep", "valid"}
                        THEN emitted \cup {state.pane_key} ELSE emitted
    /\ pass' = [pass EXCEPT !.todo = @ \ {state},
                            !.pc = IF pass.todo = {state} THEN "done" ELSE "loop"]
    /\ UNCHANGED <<live, phase, pre, orphans>>
    /\ PassFrame

(* upsert_agent by a hook of a live pane, after the pass has listed *)
PassUpsert(state) ==
    /\ pass.pc \in {"live", "loop"}
    /\ pass.wrote = None
    /\ MatchesLive(state, live)
    /\ LET w == WriteAtomicSeq(dir, data, fd, agent_path(state.pane_key), Full(state))
       IN dir' = w.dir /\ data' = w.data
    /\ pass' = [pass EXCEPT !.wrote = Some(state)]
    /\ UNCHANGED reconVars
    /\ PassFrame

NextPass ==
    \/ \E s \in PassStates : SetupUpsert(s)
    \/ \E p \in PaneIds, i \in LivePaneInfos : PaneChange(p, i)
    \/ \E p \in PaneIds : PaneClose(p)
    \/ PassList
    \/ PassLive
    \/ \E s \in PassStates : PassStep(s)
    \/ \E s \in WriterStates : PassUpsert(s)

SpecPass == Init /\ [][NextPass]_vars

--------------------------------------------------------------------------
(* Two session captors, spawned by restore for two reopened worktrees, over *)
(* the one directory ~/.claude/session-env.                                 *)

CaptorBranches == {<<"feature", "x">>, <<"feature", "y">>}

NoCaptor == [pc |-> "none", initial_count |-> 0, stored |-> None]

CaptorsFrame == UNCHANGED <<storeVars, reconVars, restoreVars, kv, probe, capVars,
                            tree, shims, guest, art, pass>>

(* restore_repo reaches its first worktree without a saved session *)
CaptorsBegin ==
    /\ captors.pc = "none"
    /\ captors' = [pc |-> "run", env |-> [exists |-> FALSE, dirs |-> <<>>],
                   c |-> [b \in CaptorBranches |-> NoCaptor]]
    /\ CaptorsFrame

(* spawn_session_capture(repo, branch, timeout): initial_count is the       *)
(* number of session directories at the spawn                               *)
CaptorSpawn(branch) ==
    /\ captors.pc = "run"
    /\ captors.c[branch].pc = "none"
    /\ captors' = [captors EXCEPT
                     !.c[branch] = [pc |-> "poll",
                                    initial_count |-> count_session_dirs(captors.env),
                                    stored |-> None]]
    /\ CaptorsFrame

(* an agent started in one of the worktrees (or anything else) makes a     *)
(* directory under session-env                                             *)
CaptorEnvCreate(d) ==
    /\ captors.pc = "run"
    /\ d \notin DirSet(captors.env)
    /\ captors' = [captors EXCEPT
                     !.env = [exists |-> TRUE, dirs |-> Append(captors.env.dirs, d)]]
    /\ CaptorsFrame

(* one turn of run_capture_loop's loop: the count, find_latest_session_id, *)
(* is_valid_uuid and store_session(repo, branch, id)                       *)
CaptorPoll(branch) ==
    /\ captors.pc = "run"
    /\ captors.c[branch].pc = "poll"
    /\ captors' =
         IF /\ count_session_dirs(captors.env) > captors.c[branch].initial_count
            /\ latest_dir(captors.env) # None
            /\ latest_dir(captors.env)[1].uuid
         THEN [captors EXCEPT !.c[branch].pc = "done",
                              !.c[branch].stored = Some(latest_dir(captors.env)[1].name)]
         ELSE captors
    /\ captors' # captors
    /\ CaptorsFrame

(* the loop ends: start.elapsed() >= timeout *)
CaptorTimeout(branch) ==
    /\ captors.pc = "run"
    /\ captors.c[branch].pc = "poll"
    /\ captors' = [captors EXCEPT !.c[branch].pc = "done"]
    /\ CaptorsFrame

NextCaptors ==
    \/ CaptorsBegin
    \/ \E b \in CaptorBranches : CaptorSpawn(b)
    \/ \E d \in SessionDirs : CaptorEnvCreate(d)
    \/ \E b \in CaptorBranches : CaptorPoll(b)
    \/ \E b \in CaptorBranches : CaptorTimeout(b)

SpecCaptors == Init /\ [][NextCaptors]_vars

--------------------------------------------------------------------------
(* Properties of the store under crashes and under concurrent writers *)

AllIdle == \A p \in Procs : Idle(p)

\* The content of the state file of key k, None when there is no such file.
FileOf(k) ==
    IF Exists(agent_path(k)) THEN Some(data[dir[agent_path(k)]]) ELSE None

\* C1: crash atomicity. With one process at a time calling upsert_agent and
\* delete_agent and dying at any step, every *.json file that list_all_agents
\* reads holds a record some upsert wrote completely, list_all_agents returns
\* only such records, and as long as no upsert for a pane has completed its
\* rename there is no state file for the pane and no listed record of it.
C1_CrashAtomicity ==
    /\ \A n \in ListedNames(dir) :
          /\ Parses(data[dir[n]])
          /\ data[dir[n]].state \in written
    /\ list_all_agents(dir, data) \subseteq written
    /\ listed # None => (listed[1].kind = "ok" /\ listed[1].agents \subseteq written)
    /\ \A k \in StoreKeys :
          k \notin renamed =>
              /\ ~Exists(agent_path(k))
              /\ listed # None => \A s \in listed[1].agents : s.pane_key # k

\* C1 witness: the first upsert for pane %1 died between the temp write and
\* the rename; the complete temp file is still there, and a list_all_agents
\* after the crash returned no record.
C1_Witness ==
    /\ res[1] = "crashed"
    /\ TmuxDefault("%1") \notin renamed
    /\ Exists(tmp_path(agent_path(TmuxDefault("%1"))))
    /\ Parses(data[dir[tmp_path(agent_path(TmuxDefault("%1")))]])
    /\ listed # None
    /\ listed[1].kind = "ok"
    /\ listed[1].agents = {}

\* C2: two processes upsert concurrently. Both calls succeed; a reader never
\* finds torn or empty content in a state file; once both are done the state
\* file of a pane that was written holds one of the written records of that
\* pane; and two single upserts for different panes leave both records.
C2_ConcurrentUpsertsSafe ==
    /\ \A p \in Procs : res[p] # "err"
    /\ \A k \in StoreKeys : FileOf(k) # None => Parses(FileOf(k)[1])
    /\ got # None => got[1].result.kind # "corrupt"
    /\ AllIdle =>
          \A k \in renamed :
              /\ FileOf(k) # None
              /\ Parses(FileOf(k)[1])
              /\ FileOf(k)[1].state \in {s \in written : s.pane_key = k}
    /\ (/\ AllIdle
        /\ \A p \in Procs : nops[p] = 1 /\ res[p] = "ok"
        /\ req[1][1].pane_key # req[2][1].pane_key)
       => \A p \in Procs : FileOf(req[p][1].pane_key) = Some(Full(req[p][1]))

\* The part of C2 that does not depend on the shared temp path: two single
\* upserts for different panes commute.
DifferentPanesCommute ==
    (/\ AllIdle
     /\ \A p \in Procs : nops[p] = 1 /\ res[p] = "ok"
     /\ req[1][1].pane_key # req[2][1].pane_key)
    => \A p \in Procs : FileOf(req[p][1].pane_key) = Some(Full(req[p][1]))

\* The temp files in agents/.
TmpFiles == {n \in DOMAIN dir : ends_with(n, <<".", "tmp">>)}

\* The last call of the process was an upsert_agent and it returned Ok.
UpsertReturnedOk(p) == Idle(p) /\ res[p] = "ok" /\ req[p] # None

\* C14 as stated: after every upsert_agent that returns success agents/ holds
\* no file whose name ends in .tmp, and list_all_agents never reads a record
\* from a file whose name ends in .tmp.
C14_NoTmpFilesAfterUpsert ==
    /\ UpsertReturnedOk(1) => TmpFiles = {}
    /\ listed # None => \A n \in DOMAIN listed[1].found : ~ends_with(n, <<".", "tmp">>)

\* C14 amended: after every upsert_agent that returns success agents/ holds
\* no temp file of the upserted pane; a temp file a crashed upsert of another
\* pane left stays there, and list_all_agents never reads a record from a
\* file whose name ends in .tmp.
C14_NoOwnTmpFileAfterUpsert ==
    /\ UpsertReturnedOk(1) => ~Exists(TmpOf(1))
    /\ listed # None => \A n \in DOMAIN listed[1].found : ~ends_with(n, <<".", "tmp">>)

\* C14 witness: an upsert for pane %2 returned success while the temp file of
\* a crashed upsert for pane %1 was there, complete, and list_all_agents
\* returned the record of %2 only.
C14_Witness ==
    /\ UpsertReturnedOk(1)
    /\ req[1][1].pane_key = TmuxDefault("%2")
    /\ Exists(tmp_path(agent_path(TmuxDefault("%1"))))
    /\ Parses(data[dir[tmp_path(agent_path(TmuxDefault("%1")))]])
    /\ listed # None
    /\ listed[1].kind = "ok"
    /\ listed[1].agents = {req[1][1]}

\* The last get_agent found a file whose content is no AgentState.
GotUnparseable == got # None /\ got[1].found # None /\ ~Parses(got[1].found[1])

\* The names of the files the last list_all_agents read whose content is no
\* AgentState.
ListedUnparseable ==
    {n \in DOMAIN listed[1].found : ~Parses(listed[1].found[n])}

\* C13: get_agent and list_all_agents never return an error because of the
\* content of a state file: for a file whose content is no AgentState,
\* get_agent deletes it and returns None, and list_all_agents deletes it,
\* leaves it out and returns the records of the other files.
C13_CorruptedFilePolicy ==
    /\ got # None => got[1].result.kind # "err"
    /\ GotUnparseable => got[1].result.kind = "corrupt"
    /\ listed # None =>
          /\ listed[1].kind = "ok"
          /\ listed[1].agents =
                {listed[1].found[n].state : n \in DOMAIN listed[1].found \ ListedUnparseable}

\* What of C13 holds: the policy for every file whose content is text.
CorruptedTextPolicy ==
    /\ (GotUnparseable /\ ReadsToString(got[1].found[1])) => got[1].result.kind = "corrupt"
    /\ (got # None /\ got[1].result.kind = "err") => ~ReadsToString(got[1].found[1])
    /\ listed # None =>
          IF \A n \in DOMAIN listed[1].found : ReadsToString(listed[1].found[n])
          THEN /\ listed[1].kind = "ok"
               /\ listed[1].agents =
                     {listed[1].found[n].state :
                         n \in DOMAIN listed[1].found \ ListedUnparseable}
          ELSE listed[1].kind = "err"

\* What get_agent(k) returns in the current state.
GetNow(k) ==
    LET r == read_agent_file(dir, data, agent_path(k))
    IN  IF r.kind = "some" THEN Some(r.state) ELSE None

\* The store agrees with the map on key k.
AgreesOn(k) == GetNow(k) = (IF k \in DOMAIN kv THEN Some(kv[k]) ELSE None)

\* C15: after any sequence of sequential upsert_agent / delete_agent calls,
\* get_agent(k) returns the record of the most recent upsert for k unless k
\* was deleted since, and None otherwise; list_all_agents returns exactly one
\* record per such key; a delete of an absent key changes nothing; and a call
\* for one PaneKey never changes the record of another.
C15_StoreIsMapByPaneKey ==
    /\ \A k \in MapKeys : AgreesOn(k)
    /\ list_all_agents(dir, data) = {kv[k] : k \in DOMAIN kv}
    /\ got # None => got[1].result.kind \in {"none", "some"}
    /\ listed # None => listed[1].kind = "ok"

\* The pane key's file name is the file name of no other pane key.
OwnFileName(k) == \A j \in MapKeys : to_filename(j) = to_filename(k) => j = k

\* What of C15 holds: the store is a map on the pane keys whose file name no
\* other pane key has.
MapOnOwnFileNames ==
    /\ \A k \in MapKeys : OwnFileName(k) => AgreesOn(k)
    /\ \A k \in DOMAIN kv : OwnFileName(k) => kv[k] \in list_all_agents(dir, data)
    /\ \A s \in list_all_agents(dir, data) :
          OwnFileName(s.pane_key) => (s.pane_key \in DOMAIN kv /\ kv[s.pane_key] = s)

\* status_ts <= updated_ts, for a record that has a status_ts.
TimestampsInOrder(s) == s.status_ts = None \/ s.status_ts[1] <= s.updated_ts

--------------------------------------------------------------------------
(* Properties of PaneKey's file names *)

\* The last call was key.to_filename().
CalledToFilename == probe # None /\ probe[1].op = "to_filename"

\* The last call was PaneKey::from_filename(name).
CalledFromFilename == probe # None /\ probe[1].op = "from_filename"

\* C16: for every PaneKey k, from_filename(to_filename(k)) is Some(k') and
\* to_filename(k') is to_filename(k).
C16_FilenameRoundTrip ==
    CalledToFilename =>
        /\ probe[1].back # None
        /\ to_filename(probe[1].back[1]) = probe[1].name

\* C16 witness: the file name of a pane key whose instance ends with an
\* underscore was parsed into another pane key with the same file name.
C16_Witness ==
    /\ CalledToFilename
    /\ probe[1].key = PaneKey(<<"a">>, <<"a", "_">>, <<"a">>)
    /\ probe[1].back = Some(PaneKey(<<"a">>, <<"a">>, <<"_", "a">>))
    /\ to_filename(probe[1].back[1]) = probe[1].name

\* C17: for every PaneKey k, from_filename(k.to_filename()) is Some(k), with
\* the same backend, instance and pane_id, underscores in pane_id included.
C17_KeyRoundTrip ==
    CalledToFilename => probe[1].back = Some(probe[1].key)

\* The field holds no "__" and does not end with "_".
DelimiterFree(field) ==
    /\ Find(field, <<"_", "_">>) = 0
    /\ ~ends_with(field, <<"_">>)

\* What of C17 holds: the round trip for every PaneKey whose backend and
\* instance hold no "__" and end with no "_", whatever its pane_id is.
KeyRoundTripDelimiterFree ==
    CalledToFilename =>
        ((DelimiterFree(probe[1].key.backend) /\ DelimiterFree(probe[1].key.instance))
            <=> probe[1].back = Some(probe[1].key))

\* C18 as stated: from_filename returns None for every file name without the
\* .json suffix and for every one whose stem is not exactly three fields
\* delimited by "__", and for no other.
C18_ExactlyThreeFields ==
    CalledFromFilename =>
        LET stem == strip_suffix(probe[1].name, <<".", "json">>)
        IN  probe[1].parsed = None
                <=> (stem = None \/ Len(split(stem[1], <<"_", "_">>)) # 3)

\* C18 amended: from_filename returns None for every file name without the
\* .json suffix and for every one whose stem has fewer than three fields
\* delimited by "__", and for no other: with more delimiters the pane_id is
\* all that follows the second one, and the key's file name is the name.
C18_AtLeastThreeFields ==
    CalledFromFilename =>
        LET stem == strip_suffix(probe[1].name, <<".", "json">>)
        IN  /\ probe[1].parsed = None
                  <=> (stem = None \/ Len(split(stem[1], <<"_", "_">>)) < 3)
            /\ probe[1].parsed # None =>
                  /\ to_filename(probe[1].parsed[1]) = probe[1].name
                  /\ Find(probe[1].parsed[1].backend, <<"_", "_">>) = 0
                  /\ Find(probe[1].parsed[1].instance, <<"_", "_">>) = 0

\* C18 witness: a name whose stem has four fields was parsed, its pane_id
\* being the last two with their delimiter.
C18_Witness ==
    /\ CalledFromFilename
    /\ probe[1].name = <<"_", "_", "_", "_", "_", "_", ".", "json">>
    /\ probe[1].parsed = Some(PaneKey(<<>>, <<>>, <<"_", "_">>))

--------------------------------------------------------------------------
(* Properties of one reconciliation pass and of the orphan drain *)

\* The record belongs to the running multiplexer.
OfRunningMux(s) == s.pane_key.backend = MuxName /\ s.pane_key.instance = MuxInstance

\* The snapshot has no pane with the record's pane id.
PaneAbsent(s) == s.pane_key.pane_id \notin DOMAIN live

\* The snapshot has a pane with the record's pane id and another pid.
PidDiffers(s) ==
    /\ s.pane_key.pane_id \in DOMAIN live
    /\ live[s.pane_key.pane_id].pid # s.pane_pid

\* The snapshot has a pane with the record's pane id and pid, running
\* another foreground command than the stored one.
CommandDiffers(s) ==
    /\ s.pane_key.pane_id \in DOMAIN live
    /\ live[s.pane_key.pane_id].pid = s.pane_pid
    /\ live[s.pane_key.pane_id].current_command # s.command

\* The record's state file is gone and no AgentPane was emitted for it.
Removed(s) == FileOf(s.pane_key) = None /\ s.pane_key \notin emitted

\* The record's state file is there, unchanged.
Untouched(s) == FileOf(s.pane_key) = Some(Full(s))

\* The AgentPane the pass emits for a live record.
PaneFor(s) ==
    to_agent_pane(s, unwrap_or_default(live[s.pane_key.pane_id].session),
                  unwrap_or_default(live[s.pane_key.pane_id].window),
                  live[s.pane_key.pane_id].title)

\* C3 as stated: after one pass, every stored record whose pane id is absent
\* from the snapshot or whose live pid differs has lost its file and got no
\* AgentPane.
C3_AllStaleRemoved ==
    phase = "reconciled" =>
        \A s \in pre : (PaneAbsent(s) \/ PidDiffers(s)) => Removed(s)

\* C3 amended: the same for every stored record of the running multiplexer's
\* backend and instance.
C3_StaleOfRunningMuxRemoved ==
    phase = "reconciled" =>
        \A s \in pre :
            (OfRunningMux(s) /\ (PaneAbsent(s) \/ PidDiffers(s))) => Removed(s)

\* C3 witness: a pass met a record of the running multiplexer whose pane id
\* had been recycled by a shell with another pid, and one whose pane was gone.
C3_Witness ==
    /\ phase = "reconciled"
    /\ \E s \in pre : OfRunningMux(s) /\ PidDiffers(s) /\ Removed(s)
    /\ \E s \in pre : OfRunningMux(s) /\ PaneAbsent(s) /\ Removed(s)

\* C4: a record with status = None or restored = true whose live pane has the
\* stored pid, and for which the pass observes a command mismatch (it reaches
\* the comparison, so the record is one of the running multiplexer), is not
\* deleted and gets a live AgentPane.
C4_ProvisionalKept ==
    phase = "reconciled" =>
        \A s \in pre :
            (/\ s.status = None \/ s.restored
             /\ OfRunningMux(s)
             /\ CommandDiffers(s))
            => /\ Untouched(s)
               /\ s.pane_key \in emitted
               /\ PaneFor(s) \in valid_agents

\* C4 witness: a pass kept a restored record with a status set, and a record
\* with no status, both under a command mismatch.
C4_Witness ==
    /\ phase = "reconciled"
    /\ \E s \in pre : /\ s.restored /\ s.status # None /\ OfRunningMux(s)
                      /\ CommandDiffers(s) /\ s.pane_key \in emitted
    /\ \E s \in pre : /\ ~s.restored /\ s.status = None /\ OfRunningMux(s)
                      /\ CommandDiffers(s) /\ s.pane_key \in emitted

\* C7: a second drain_orphans right after the first, with the same snapshot
\* and no write in between, returns an empty map.
C7_SecondDrainEmpty ==
    phase = "drained_twice" => orphans = <<>>

\* C7 witness: the first of the two drains had orphans to take.
C7_Witness ==
    /\ phase = "drained_twice"
    /\ \E s \in pre : PaneAbsent(s)
    /\ \E s \in pre : PidDiffers(s)

\* The entries of the map drain_orphans returned.
Returned == {orphans[w] : w \in DOMAIN orphans}

\* C8 as stated: drain_orphans takes a record for an orphan iff its pane id is
\* absent from the snapshot or present with another pid; every orphan's file
\* is deleted and the orphan is returned under its workdir; every other
\* record's file is unchanged and the record is not returned.
C8_DrainClassifiesAndReturns ==
    phase = "drained" =>
        \A s \in pre :
            IF PaneAbsent(s) \/ PidDiffers(s)
            THEN /\ FileOf(s.pane_key) = None
                 /\ s.workdir \in DOMAIN orphans
                 /\ orphans[s.workdir] = s
            ELSE /\ Untouched(s)
                 /\ s \notin Returned

\* What of C8 holds when several orphans share a workdir: the classification,
\* the deletions, and one returned orphan per workdir of an orphan.
DrainClassifies ==
    phase = "drained" =>
        /\ \A s \in pre :
              IF PaneAbsent(s) \/ PidDiffers(s)
              THEN /\ FileOf(s.pane_key) = None
                   /\ s.workdir \in DOMAIN orphans
              ELSE /\ Untouched(s)
                   /\ s \notin Returned
        /\ \A w \in DOMAIN orphans :
              /\ orphans[w] \in pre
              /\ orphans[w].workdir = w
              /\ PaneAbsent(orphans[w]) \/ PidDiffers(orphans[w])

\* C9 as stated: a record with a status set and restored = false whose pane id
\* is live with the stored pid and another command is deleted and not emitted.
C9_ExitedRemoved ==
    phase = "reconciled" =>
        \A s \in pre :
            (s.status # None /\ ~s.restored /\ CommandDiffers(s)) => Removed(s)

\* C9 amended: the same for every record of the running multiplexer's backend
\* and instance.
C9_ExitedOfRunningMuxRemoved ==
    phase = "reconciled" =>
        \A s \in pre :
            (OfRunningMux(s) /\ s.status # None /\ ~s.restored /\ CommandDiffers(s))
            => Removed(s)

\* C9 witness: a pass deleted a record of the running multiplexer whose agent
\* had exited to the shell.
C9_Witness ==
    /\ phase = "reconciled"
    /\ \E s \in pre : /\ OfRunningMux(s) /\ s.status # None /\ ~s.restored
                      /\ CommandDiffers(s) /\ Removed(s)

\* C10: a record whose backend or instance is not the running multiplexer's
\* is not deleted, not modified and not emitted, whatever the snapshot holds.
C10_ForeignSkipped ==
    phase = "reconciled" =>
        \A s \in pre :
            ~OfRunningMux(s) => (Untouched(s) /\ s.pane_key \notin emitted)

\* C10 witness: the pass skipped a record of another tmux server whose pane id
\* is absent from the snapshot, and a record of another backend whose pane id
\* is live with another pid, while it deleted a record of its own.
C10_Witness ==
    /\ phase = "reconciled"
    /\ \E s \in pre : /\ s.pane_key.backend = MuxName
                      /\ s.pane_key.instance # MuxInstance
                      /\ PaneAbsent(s) /\ Untouched(s)
    /\ \E s \in pre : /\ s.pane_key.backend # MuxName
                      /\ PidDiffers(s) /\ Untouched(s)

\* The pass deleted the record for a pid mismatch or for a command mismatch
\* with no exemption.
DeletedAsStale(s) ==
    /\ OfRunningMux(s)
    /\ PidDiffers(s) \/ (CommandDiffers(s) /\ s.status # None /\ ~s.restored)
    /\ Removed(s)

\* C11: the pass calls clear_status for a pane id exactly when it deleted the
\* running multiplexer's record of that pane for a pid mismatch or a
\* non-exempt command mismatch; no call is made for the pane of a record
\* whose pane is gone or of a record that is kept, and a foreign record
\* never causes one.
C11_ClearStatusOnStaleDelete ==
    phase = "reconciled" =>
        /\ \A p \in PaneIds :
              p \in cleared <=> \E s \in pre : s.pane_key.pane_id = p /\ DeletedAsStale(s)
        /\ cleared \subseteq PaneIds
        /\ \A s \in pre :
              (OfRunningMux(s) /\ (PaneAbsent(s) \/ s.pane_key \in emitted))
              => s.pane_key.pane_id \notin cleared
        /\ \A s \in pre :
              (~OfRunningMux(s) /\ s.pane_key.pane_id \in cleared)
              => \E t \in pre : /\ t.pane_key.pane_id = s.pane_key.pane_id
                                 /\ DeletedAsStale(t)

\* C11 witness: one pass cleared the status of a pane whose record it deleted
\* for a pid mismatch, and made no call for the record it deleted because its
\* pane was gone.
C11_Witness ==
    /\ phase = "reconciled"
    /\ \E s \in pre : DeletedAsStale(s) /\ PidDiffers(s) /\ s.pane_key.pane_id \in cleared
    /\ \E s \in pre : /\ OfRunningMux(s) /\ PaneAbsent(s) /\ Removed(s)
                      /\ s.pane_key.pane_id \notin cleared

--------------------------------------------------------------------------
(* Properties of the restore command *)

\* The restore run is over.
RunDone == phase \in {"restoring", "restored_reconciled"} /\ run.pc = "done"

\* The opens of the run whose effective workdir is the workdir of an orphan
\* the run drained.
OpensOfOrphans == {o \in opens : \E s \in run.drained : s.workdir = o.workdir}

\* The new AgentState carries the status, status_ts and pane_title of a
\* drained orphan of its workdir, and restored = true.
CarriesOrphan(o) ==
    /\ o.state.restored
    /\ \E s \in run.drained :
          /\ s.workdir = o.workdir
          /\ o.state.status = s.status
          /\ o.state.status_ts = s.status_ts
          /\ o.state.pane_title = s.pane_title

SomethingToRestore(r) ==
    IF r.all THEN r.found # <<>> ELSE r.git["r1"] # <<>>

C12_DryRunNoChanges ==
    (phase = "restoring" /\ run.pc = "done" /\ run.dry_run) =>
        /\ StateFiles(dir, data) = run.before[1].files
        /\ sessions = run.before[1].sessions
        /\ windows = run.before[1].windows

--------------------------------------------------------------------------
(* Properties of session capture *)

\* The capture is over and at no moment of it was a new directory with a UUID
\* name the newest one of session-env.
CaptureFoundNothing == cap.pc = "done" /\ ~cap.offered

\* C20: run_capture_loop ends and returns success, never an error, when no
\* valid new session directory is found before the timeout (no new directory,
\* no session-env directory, a newest directory whose name is no UUID), and
\* it stores nothing then, so get_session still returns None. The formula is
\* its safety part: what a capture that found nothing returns and stores.
C20_CaptureBestEffort ==
    CaptureFoundNothing => (cap.result = "ok" /\ session_id = None)

\* What of C20 holds: every capture ends.
CaptureTerminates == CaptureRunning ~> cap.pc = "done"

\* What of C20 holds: a capture that found nothing stores nothing; and it
\* returns success when the home directory is known and session-env is not
\* removed between the exists() test and the read_dir of a poll (cap.raced).
CaptureStoresNothing ==
    /\ CaptureFoundNothing => session_id = None
    /\ (cap.pc = "done" /\ cap.result = "err") => (~cap.home \/ cap.raced)

--------------------------------------------------------------------------
(* Properties of the UUID format *)

CalledIsValidUuid == probe # None /\ probe[1].op = "is_valid_uuid"

\* 36 characters: hexadecimal digits of either case, but '-' as the 9th,
\* 14th, 19th and 24th, so that the segments between them have 8, 4, 4, 4 and
\* 12 digits.
UuidFormat(s) ==
    /\ Len(s) = 36
    /\ \A i \in 1..Len(s) :
          IF i \in {9, 14, 19, 24} THEN s[i] = "-"
          ELSE s[i] \in {"0", "1", "2", "3", "4", "5", "6", "7", "8", "9",
                         "a", "b", "c", "d", "e", "f", "A", "B", "C", "D", "E", "F"}

\* C22: is_valid_uuid(s) is true if and only if s is five segments of 8, 4,
\* 4, 4 and 12 hexadecimal digits of either case, separated by '-'.
C22_IsValidUuidIffFormat ==
    CalledIsValidUuid => (probe[1].valid <=> UuidFormat(probe[1].s))

\* An accepted string with a digit in upper case.
C22_Witness ==
    /\ CalledIsValidUuid
    /\ probe[1].valid
    /\ probe[1].s = Uuid550

--------------------------------------------------------------------------
(* Properties of the session store *)

\* The session ids in the store: the contents of the files named session_id.
StoredIds(t) == {t.files[p] : p \in {q \in DOMAIN t.files : q[Len(q)] = "session_id"}}

CalledCapture == probe # None /\ probe[1].op = "capture"

\* The file of a branch, or that there is none.
SessionFile(t, branch) ==
    IF get_session_path(Repo, branch) \in DOMAIN t.files
    THEN Some(t.files[get_session_path(Repo, branch)]) ELSE None

\* C21: every session id stored has the UUID format, and `session capture`
\* with an id that is no UUID fails and stores nothing.
C21_StoredIdsAreUuids ==
    /\ \A id \in StoredIds(tree) : is_valid_uuid(id)
    /\ (CalledCapture /\ probe[1].id # None /\ ~is_valid_uuid(probe[1].id[1])) =>
          /\ probe[1].result = "err"
          /\ SessionFile(tree, probe[1].branch) = SessionFile(probe[1].before, probe[1].branch)

\* What of C21 holds: an id that `session capture` detects itself is stored
\* only with the UUID format, and without one the command fails.
AutoCaptureStoresUuid ==
    (CalledCapture /\ probe[1].id = None) =>
        IF probe[1].result = "ok"
        THEN /\ SessionFile(tree, probe[1].branch) # None
             /\ is_valid_uuid(SessionFile(tree, probe[1].branch)[1])
        ELSE SessionFile(tree, probe[1].branch) = SessionFile(probe[1].before, probe[1].branch)

\* What of C21 holds: the capture loop stores only an id of the UUID format.
LoopStoresUuid == session_id # None => is_valid_uuid(session_id[1])

\* remove_session was called for a branch that had a session file.
RemovedSession ==
    /\ probe # None
    /\ probe[1].op = "remove_session"
    /\ SessionFile(probe[1].before, probe[1].branch) # None

\* The repo_path marker of the repository is there.
HasMarker(t) == <<Repo, "repo_path">> \in DOMAIN t.files

\* A directory is left under the directory of the repository.
BranchDirRemains(t) == Children(t, <<Repo>>) \cap t.dirs # {}

\* The file is gone, the directories that became empty are gone, and the
\* files of the other branches are as before.
RemoveUnlinksAndPrunes ==
    RemovedSession =>
        /\ SessionFile(tree, probe[1].branch) = None
        /\ \A d \in tree.dirs : d = <<Repo>> \/ Children(tree, d) # {}
        /\ \A b \in Branches \ {probe[1].branch} :
              SessionFile(tree, b) = SessionFile(probe[1].before, b)

\* C23: remove_session(repo, branch) unlinks the session file and prunes the
\* parent directories that became empty; the repo_path marker is removed if
\* and only if no branch subdirectory remains under the repository; the
\* sessions of other branches are unchanged; for every branch name.
C23_RemoveSessionPrunes ==
    /\ RemoveUnlinksAndPrunes
    /\ (RemovedSession /\ HasMarker(probe[1].before)) =>
          (~HasMarker(tree) <=> ~BranchDirRemains(tree))

\* What of C23 holds: all of it for a branch name without '/'.
RemoveSessionFlatBranch ==
    (RemovedSession /\ Len(probe[1].branch) = 1) => C23_RemoveSessionPrunes

--------------------------------------------------------------------------
(* Properties of the command names of the shims *)

CalledValidate == probe # None /\ probe[1].op = "validate_command_name"

\* The characters of a command name: ASCII letters and digits, '.', '_', '-'.
NameChars ==
    {"0", "1", "2", "3", "4", "5", "6", "7", "8", "9",
     "a", "b", "c", "d", "e", "f", "g", "h", "i", "j", "k", "l", "m",
     "n", "o", "p", "q", "r", "s", "t", "u", "v", "w", "x", "y", "z",
     "A", "B", "C", "D", "E", "F", "G", "H", "I", "J", "K", "L", "M",
     "N", "O", "P", "Q", "R", "S", "T", "U", "V", "W", "X", "Y", "Z", ".", "_", "-"}

\* 1 to 64 bytes, all of them name characters (one byte each), the first one
\* a letter or digit.
GoodCommandName(s) ==
    /\ Len(s) \in 1..64
    /\ \A i \in 1..Len(s) : s[i] \in NameChars
    /\ s[1] \notin {".", "_", "-"}

\* C25: validate_command_name accepts exactly the strings of 1 to 64 bytes
\* whose first byte is an ASCII letter or digit and whose bytes are all in
\* [A-Za-z0-9._-]; it rejects every other string, the empty string, '.',
\* '..' and '_shim' among them.
C25_ValidateCommandName ==
    CalledValidate =>
        /\ probe[1].valid <=> GoodCommandName(probe[1].cmd)
        /\ probe[1].cmd \in {<<>>, <<".">>, <<".", ".">>, <<"_", "s", "h", "i", "m">>}
              => ~probe[1].valid

\* A name of 64 bytes is accepted.
C25_Witness ==
    /\ CalledValidate
    /\ probe[1].cmd = Rep("a", 64)
    /\ probe[1].valid

CalledEffective == probe # None /\ probe[1].op = "effective_host_commands"

\* Where x occurs first in seq.
FirstIndex(seq, x) == CHOOSE i \in 1..Len(seq) : seq[i] = x /\ \A j \in 1..(i - 1) : seq[j] # x

\* C26: effective_host_commands(user) holds every built-in command, the
\* built-ins first and in their order, then the user commands in order of
\* first occurrence, and no command twice.
C26_EffectiveHostCommands ==
    CalledEffective =>
        LET result == probe[1].commands
            user == probe[1].user
            n == Len(BUILTIN_HOST_COMMANDS)
        IN  /\ Len(result) >= n
            /\ SubSeq(result, 1, n) = BUILTIN_HOST_COMMANDS
            /\ \A i, j \in 1..Len(result) : result[i] = result[j] => i = j
            /\ {result[i] : i \in 1..Len(result)}
                  = {BUILTIN_HOST_COMMANDS[i] : i \in 1..n} \cup {user[i] : i \in 1..Len(user)}
            /\ \A i, j \in (n + 1)..Len(result) :
                  i < j => FirstIndex(user, result[i]) < FirstIndex(user, result[j])

\* A user list that repeats a built-in and one of its own commands.
C26_Witness ==
    /\ CalledEffective
    /\ probe[1].user = <<Just, Afplay, Cargo, Just>>
    /\ probe[1].commands = <<Afplay, Just, Cargo>>

--------------------------------------------------------------------------
(* Properties of the shim directory *)

\* Both calls of create_shim_directory have returned.
ShimsDone == shims.pc = "run" /\ \A p \in Supervisors : shims.procs[p].pc = "done"

\* Every valid command name of the list is a symlink to _shim.
ShimsLinked ==
    \A i \in 1..Len(shims.commands) :
        validate_command_name(shims.commands[i]) =>
            /\ shims.commands[i] \in DOMAIN shims.bin
            /\ shims.bin[shims.commands[i]] = "symlink to _shim"

\* No name that ends with .tmp is in shims/bin.
NoShimTmp == \A name \in DOMAIN shims.bin : ~ends_with(name, <<".", "t", "m", "p">>)

\* C24: two concurrent create_shim_directory calls on the same state_dir with
\* the same command list both succeed in every interleaving, and afterwards
\* every valid command name is a symlink to _shim and no .tmp name remains.
C24_ConcurrentShimCreation ==
    ShimsDone =>
        /\ \A p \in Supervisors : shims.procs[p].result = "ok"
        /\ ShimsLinked
        /\ NoShimTmp

\* What of C24 holds: one of the calls succeeds, and afterwards the links are
\* there and no .tmp name remains.
ShimsLinkedByOne ==
    ShimsDone =>
        /\ \E p \in Supervisors : shims.procs[p].result = "ok"
        /\ ShimsLinked
        /\ NoShimTmp

--------------------------------------------------------------------------
(* Properties of the commands in and outside a sandbox guest *)

CommandDone(cmd) == guest.pc = "done" /\ guest.cmd = cmd

\* The frames that end host-exec: the exit of the remote process, an error
\* of the host, the end of the connection.
EndsExec(frame) == frame.tag \in {"ExecExit", "Error", "transport failure"}

\* The data of the frames of one tag, in the order received.
DataOf(frames, tag) ==
    LET of == SelectSeq(frames, LAMBDA f : f.tag = tag)
    IN  [i \in 1..Len(of) |-> of[i].data]

\* C27: host-exec writes every ExecOutput frame to stdout and every ExecError
\* frame to stderr in the order received, stops at the first ExecExit frame
\* and returns that frame's code; an Error frame or a transport failure before
\* ExecExit is a failure, never exit code 0.
C27_HostExecStreams ==
    (CommandDone("host-exec") /\ guest.sent # <<>>) =>
        LET r == guest.received
        IN  /\ r # <<>>
            /\ \A i \in 1..Len(r) : EndsExec(r[i]) <=> i = Len(r)
            /\ guest.stdout = DataOf(r, "ExecOutput")
            /\ guest.stderr = DataOf(r, "ExecError")
            /\ IF r[Len(r)].tag = "ExecExit"
               THEN guest.result = [kind |-> "ok", code |-> r[Len(r)].code]
               ELSE guest.result.kind = "err"

\* Output on both streams, a frame of another request in between, and an
\* exit code that is not 0.
C27_Witness ==
    /\ CommandDone("host-exec")
    /\ guest.received = <<[tag |-> "ExecOutput", data |-> "a"],
                           [tag |-> "ExecError", data |-> "x"],
                           [tag |-> "ExecExit", code |-> 3]>>
    /\ guest.stdout = <<"a">>
    /\ guest.stderr = <<"x">>
    /\ guest.result = [kind |-> "ok", code |-> 3]

\* C28: host-exec without WM_SANDBOX_GUEST=1 fails with the 'only works
\* inside a sandbox guest' error before it opens a connection or sends a
\* request.
C28_HostExecOnlyInGuest ==
    (guest.pc # "none" /\ guest.cmd = "host-exec" /\ guest.env.WM_SANDBOX_GUEST # Some("1")) =>
        /\ guest.pc = "done"
        /\ guest.result = [kind |-> "err", message |-> "only works inside a sandbox guest"]
        /\ ~guest.rpc
        /\ guest.sent = <<>>
        /\ guest.received = <<>>

\* host-exec was run with WM_SANDBOX_GUEST set, but not to 1.
C28_Witness ==
    /\ CommandDone("host-exec")
    /\ guest.env.WM_SANDBOX_GUEST = Some("0")
    /\ guest.result.kind = "err"

\* The local actions on the multiplexer, the state store or git.
ActsLocally(g) ==
    \E i \in 1..Len(g.local) : g.local[i] \notin {"Config::load"}

\* C29: with WM_SANDBOX_GUEST=1, set-window-status and merge route their
\* request through the RPC client and perform no local multiplexer,
\* state-store or git action.
C29_GuestRoutesThroughRpc ==
    (guest.pc = "done" /\ guest.cmd \in {"set-window-status", "merge"}
       /\ guest.env.WM_SANDBOX_GUEST = Some("1")
       /\ ~(guest.result.kind = "err" /\ guest.result.message = "resolve_name")) =>
        /\ guest.rpc
        /\ ~ActsLocally(guest)

\* What of C29 holds: merge in a guest uses the RPC client and does nothing
\* locally, and sends nothing but its Merge request.
MergeRoutesThroughRpc ==
    (guest.pc # "none" /\ guest.cmd = "merge" /\ guest.env.WM_SANDBOX_GUEST = Some("1")) =>
        /\ guest.local = <<>>
        /\ guest.sent \in {<<>>, <<"Merge">>}
        /\ (guest.pc = "done" /\ guest.result.kind = "ok") =>
              (guest.rpc /\ guest.received[Len(guest.received)].tag = "Ok")

\* C30: set-window-status (working, waiting, done or clear) with TMUX_PANE
\* unset returns success and does nothing: no configuration load, no
\* multiplexer command, no state change.
C30_NoPaneNoOp ==
    (guest.pc # "none" /\ guest.cmd = "set-window-status" /\ guest.env.TMUX_PANE = None) =>
        /\ guest.pc = "done"
        /\ guest.result = [kind |-> "ok"]
        /\ guest.local = <<>>
        /\ ~guest.rpc
        /\ guest.sent = <<>>

\* `set-window-status working` was run without TMUX_PANE.
C30_Witness ==
    /\ CommandDone("set-window-status")
    /\ guest.arg = "working"
    /\ guest.env.TMUX_PANE = None
    /\ guest.result = [kind |-> "ok"]

\* With TMUX_PANE set the command does act: the witness of the other side.
SetWindowStatusActsInPane ==
    (CommandDone("set-window-status") /\ guest.env.TMUX_PANE # None
       /\ guest.result.kind = "ok") => ActsLocally(guest)

--------------------------------------------------------------------------
(* Properties of run artifacts *)

(* C31: every call of read_result returns None when its exists() test came *)
(* before write_result completed, and the complete result the writer was   *)
(* given when it came after; it never returns an error or a partial result *)
C31_ResultIsCompletionSignal ==
    (art.pc = "run" /\ art.seen # None) =>
        art.seen[1].out = IF art.seen[1].completed
                          THEN Complete(art.result) ELSE Absent

(* a poller read the complete result, renamed into place while the poll    *)
(* loop was running                                                        *)
C31_Witness ==
    /\ art.pc = "run" /\ art.seen # None
    /\ art.seen[1].out = Complete(art.result)
    /\ art.seen[1].completed
    /\ art.renamed_at # None /\ art.renamed_at[1] > 0

(* the timeout elapsed (elapsed > timeout) before result.json appeared *)
ElapsedBeforeResult ==
    /\ art.timeout # None
    /\ art.renamed_at = None \/ art.renamed_at[1] > art.timeout[1]

RunWaitDone == art.pc = "run" /\ art.wait /\ art.p = "exited"

(* C32: run --wait ends with code 124 when the timeout elapsed before      *)
(* result.json appeared, and otherwise with the exit code recorded in      *)
(* result.json (0 as success, 1 when no exit code is recorded)             *)
C32_RunWaitExitCodes ==
    RunWaitDone =>
        art.code = IF ElapsedBeforeResult
                   THEN Some(124) ELSE Some(exit_code_of(art.result))

(* What the loop does give: 124 when a poll finds the timeout elapsed,     *)
(* and the recorded exit code when a poll before that finds result.json    *)
RunWaitExitCodesByPoll ==
    RunWaitDone =>
        \/ /\ art.how = "timeout" /\ art.code = Some(124)
           /\ art.timeout # None /\ art.now > art.timeout[1]
        \/ /\ art.how = "result" /\ art.code = Some(exit_code_of(art.result))
           /\ art.renamed_at # None

(* result.json was in place before the timeout elapsed, and the run ended  *)
(* as a timeout                                                            *)
RunTimeoutDespiteResult ==
    /\ RunWaitDone /\ art.how = "timeout"
    /\ art.renamed_at # None /\ art.renamed_at[1] <= art.timeout[1]

RunFiles == {"spec.json", "stdout", "stderr"}

(* C33: whenever run --wait has finished, by reading the result or by      *)
(* timeout, the run directory is gone if --keep was not given and is there *)
(* with its files if --keep was given                                      *)
C33_ArtifactsDestroyedUnlessKept ==
    (RunWaitDone /\ art.how \in {"result", "timeout"}) =>
        IF art.keep
        THEN art.exists /\ RunFiles \subseteq DOMAIN art.files
        ELSE ~ art.exists

(* What does hold: the directory is kept with its files under --keep, and  *)
(* it is gone after the result was read without --keep                     *)
RunKeepsOrRemovesAfterResult ==
    RunWaitDone =>
        /\ art.keep => (art.exists /\ RunFiles \subseteq DOMAIN art.files)
        /\ (art.how = "result" /\ ~ art.keep) => ~ art.exists
        /\ (art.how = "result" /\ art.keep) => "result.json" \in DOMAIN art.files

(* a timed out run without --keep whose directory is left behind *)
RunDirLeftAfterTimeout ==
    /\ RunWaitDone /\ art.how = "timeout" /\ ~ art.keep
    /\ art.exists

--------------------------------------------------------------------------
(* Properties of the toolchain wrapper *)

Wrapped == probe # None /\ probe[1].fn = "toolchain_wrapper_script"

Pieces(s) == {s[i] : i \in DOMAIN s}

(* C34: for two commands and argument lists under one toolchain the script *)
(* text is the same, no piece of the script is the command or one of its   *)
(* arguments, and the command and arguments are the positional parameters  *)
(* after "--"                                                              *)
C34_WrapperIsStaticTemplate ==
    Wrapped =>
        LET a == probe[1].calls[1]
            b == probe[1].calls[2]
        IN /\ a.script = b.script
           /\ \A c \in {a, b} :
                c.script # None =>
                  /\ Pieces(c.script[1]) \cap ({c.command} \cup Pieces(c.args)) = {}
                  /\ c.argv[3] = c.script[1]
                  /\ c.argv[4] = "--"
                  /\ SubSeq(c.argv, 5, Len(c.argv)) = << c.command >> \o c.args

(* two different commands, one with a quote and a semicolon in an argument, *)
(* wrapped by the same Devbox script                                        *)
C34_Witness ==
    /\ Wrapped /\ probe[1].toolchain = "Devbox"
    /\ probe[1].calls[1].command = "cargo"
    /\ probe[1].calls[2].command = "just"
    /\ probe[1].calls[1].args = << "'; rm -rf ~; '" >>
    /\ probe[1].calls[2].args = << "build", "build" >>
    /\ probe[1].calls[1].script # None

--------------------------------------------------------------------------
(* Properties of the Lima wrapper *)

LimaWrapped == probe # None /\ probe[1].fn = "wrap_for_lima"

LimaWords == sh_words(probe[1].out, 1)

(* C35: under the shell's quoting rules the command line is limactl shell  *)
(* <vm> [--setenv NAME=<value>] -- sh -c <script>, whose last word is       *)
(* exactly cd '<dir>' && <command>, and in that script the word after cd    *)
(* reads as the directory                                                   *)
C35_SingleQuoteRoundTrip ==
    LimaWrapped =>
        LET wd == to_string_lossy(probe[1].working_dir)
            script == LimaWords[Len(LimaWords)]
            cd == sh_word(script, 1, FALSE, <<>>)
            arg == sh_word(script, cd.next, FALSE, <<>>)
        IN /\ LimaWords =
                << << "limactl" >>, << "shell" >>, << "wm-abc" >> >>
                \o (IF probe[1].env = None THEN <<>>
                    ELSE << << "--setenv" >>, << "MY_VAR", "=" >> \o probe[1].env[1] >>)
                \o << << "--" >>, << "sh" >>, << "-c" >>, script >>
           /\ script = << "cd", Space, Quote >> \o shell_escape(wd)
                          \o << Quote, Space, "&&", Space >> \o probe[1].command
           /\ cd.word = << "cd" >> /\ cd.closed
           /\ arg.word = wd /\ arg.closed
           /\ SubSeq(script, arg.next, Len(script)) =
                << "&&", Space >> \o probe[1].command

(* a command and a directory that both hold a single quote, and a passed   *)
(* variable with one                                                        *)
C35_Witness ==
    /\ LimaWrapped
    /\ probe[1].command = << Quote, "a" >>
    /\ probe[1].working_dir = << Quote, Space >>
    /\ probe[1].env = Some(<< Quote >>)

--------------------------------------------------------------------------
(* Properties of aggregate_checks *)

Aggregated == probe # None /\ probe[1].fn = "aggregate_checks"

(* the reference table: what one check is *)
IsPassed(k) == k.conclusion = Some("SUCCESS") \/ k.status = Some("SUCCESS")
IsFailed(k) ==
    /\ ~ IsPassed(k)
    /\ \/ k.conclusion \in {Some("FAILURE"), Some("CANCELLED"), Some("TIMED_OUT"),
                            Some("STARTUP_FAILURE"), Some("ACTION_REQUIRED")}
       \/ k.status \in {Some("FAILURE"), Some("ERROR")}
IsSkipped(k) ==
    /\ ~ IsPassed(k) /\ ~ IsFailed(k)
    /\ k.conclusion \in {Some("NEUTRAL"), Some("SKIPPED")}
IsPending(k) ==
    /\ ~ IsPassed(k) /\ ~ IsFailed(k) /\ ~ IsSkipped(k)
    /\ k.status \in {Some("IN_PROGRESS"), Some("QUEUED"), Some("PENDING"),
                     Some("REQUESTED"), Some("WAITING")}

NumPassed(checks) == Cardinality({i \in DOMAIN checks : IsPassed(checks[i])})
NumFailed(checks) == Cardinality({i \in DOMAIN checks : IsFailed(checks[i])})
NumSkipped(checks) == Cardinality({i \in DOMAIN checks : IsSkipped(checks[i])})
NumPending(checks) == Cardinality({i \in DOMAIN checks : IsPending(checks[i])})

(* C36: aggregate_checks gives None for an empty list or one with no       *)
(* classified check, Failure{passed,total} when a check failed, Pending    *)
(* {passed,total} when none failed and one is pending, Success when all    *)
(* active checks passed or there are only skipped ones, and total is       *)
(* passed + failed + pending without the skipped                           *)
C36_AggregateMatchesTable ==
    Aggregated =>
        LET checks == probe[1].checks
            p == NumPassed(checks)
            f == NumFailed(checks)
            q == NumPending(checks)
            s == NumSkipped(checks)
        IN probe[1].out =
             IF p + f + q + s = 0 THEN None
             ELSE IF f > 0 THEN Some(Failure(p, p + f + q))
             ELSE IF q > 0 THEN Some(Pending(p, p + q))
             ELSE Some(Success)

(* a failed check beside a pending and a skipped one *)
C36_Witness ==
    /\ Aggregated
    /\ probe[1].checks =
         << [status |-> Some("IN_PROGRESS"), conclusion |-> None],
            [status |-> Some("COMPLETED"), conclusion |-> Some("FAILURE")] >>
    /\ probe[1].out = Some(Failure(0, 2))

--------------------------------------------------------------------------
(* Properties of the orphan drain: what it deletes and what it returns *)

(* the records whose state file the drain deleted *)
DrainDeleted == {s \in pre : FileOf(s.pane_key) = None}

(* C37: drain_orphans deletes no state file without returning its record:  *)
(* every deleted record is an entry of the returned map, and the map has   *)
(* as many entries as files were deleted                                   *)
C37_DrainReturnsEveryDeleted ==
    phase = "drained" =>
        /\ DrainDeleted \subseteq Returned
        /\ Cardinality(DOMAIN orphans) = Cardinality(DrainDeleted)

(* What holds: the returned entries are deleted records, one per workdir   *)
(* of a deleted record                                                     *)
DrainReturnsOnePerWorkdir ==
    phase = "drained" =>
        /\ Returned \subseteq DrainDeleted
        /\ DOMAIN orphans = {s.workdir : s \in DrainDeleted}

(* two orphans of one workdir were deleted and one was returned *)
DrainDroppedAnOrphan ==
    /\ phase = "drained"
    /\ Cardinality(DrainDeleted) = 2
    /\ Cardinality(DOMAIN orphans) = 1

(* C39: drain_orphans neither deletes nor returns a record whose backend   *)
(* or instance is not the running multiplexer's                            *)
C39_DrainLeavesForeign ==
    phase = "drained" =>
        \A s \in pre : Foreign(s) => (Untouched(s) /\ s \notin Returned)

(* What holds: the drain judges a record by its pane id and pid alone      *)
DrainIgnoresBackend ==
    phase = "drained" =>
        \A s \in pre :
            (Foreign(s) /\ (PaneAbsent(s) \/ PidDiffers(s))) =>
                FileOf(s.pane_key) = None

(* a record of another tmux server was deleted and returned as an orphan *)
DrainTookForeign ==
    /\ phase = "drained"
    /\ \E s \in pre : Foreign(s) /\ FileOf(s.pane_key) = None /\ s \in Returned

--------------------------------------------------------------------------
(* Properties of a reconciliation pass beside a writer *)

PassAndWriteDone == pass.pc = "done" /\ pass.wrote # None

(* C38: when upsert_agent wrote a record for a pane after the pass listed  *)
(* the store, and the record matches the live pane's pid and command, the  *)
(* record exists after both have finished                                  *)
C38_PassKeepsConcurrentWrite ==
    (PassAndWriteDone /\ MatchesLive(pass.wrote[1], live)) =>
        FileOf(pass.wrote[1].pane_key) = Some(Full(pass.wrote[1]))

(* What holds: the new record is lost only when the pass had listed a      *)
(* record of the same pane that its snapshot condemns                      *)
PassDeletesByListedRecord ==
    PassAndWriteDone =>
        \/ FileOf(pass.wrote[1].pane_key) = Some(Full(pass.wrote[1]))
        \/ \E s \in pass.all :
              /\ s.pane_key = pass.wrote[1].pane_key
              /\ Verdict(s, pass.snapshot) \in {"gone", "pid", "exited"}

(* the pass deleted the file of a record written during the pass *)
PassLostWrite ==
    /\ PassAndWriteDone /\ MatchesLive(pass.wrote[1], live)
    /\ FileOf(pass.wrote[1].pane_key) = None

(* the pass and a write for a pane the pass keeps *)
PassKeptWrite ==
    /\ PassAndWriteDone /\ MatchesLive(pass.wrote[1], live)
    /\ FileOf(pass.wrote[1].pane_key) = Some(Full(pass.wrote[1]))
    /\ \E s \in pass.all : s.pane_key = pass.wrote[1].pane_key

--------------------------------------------------------------------------
(* Properties of two captors *)

(* C40: two captors for two branches never store the same session id for   *)
(* both branches                                                           *)
C40_CaptorsDoNotCrossContaminate ==
    captors.pc = "run" =>
        \A a \in CaptorBranches, b \in CaptorBranches :
            (a # b /\ captors.c[a].stored # None) =>
                captors.c[a].stored # captors.c[b].stored

(* What holds: a captor stores the name of a directory of session-env that *)
(* is a UUID, and only when there were more directories than at its spawn  *)
CaptorStoresSomeNewUuid ==
    captors.pc = "run" =>
        \A b \in CaptorBranches :
            captors.c[b].stored # None =>
                /\ \E d \in DirSet(captors.env) :
                      d.uuid /\ d.name = captors.c[b].stored[1]
                /\ Len(captors.env.dirs) > captors.c[b].initial_count

(* both captors stored the one session id; two sessions had appeared *)
CaptorsStoredSameId ==
    /\ captors.pc = "run"
    /\ \A b \in CaptorBranches : captors.c[b].stored = Some(Uuid550)
    /\ Cardinality({d \in DirSet(captors.env) : d.uuid}) = 2

====
